---- MODULE Spec2Model ----
(***************************************************************************)
(* Model of the vellum command/event bridge: the widget registry           *)
(* (src/ui/widget_manager.rs), the command dispatcher (src/ui/handler.rs,  *)
(* src/ui/widgets/*.rs) and the transport session (src/ipc/server.rs).     *)
(***************************************************************************)
EXTENDS Integers, Sequences, FiniteSets, TLC

VARIABLES
    widgets,        \* WidgetManager.widgets : id -> WidgetInfo
    child_counts,   \* WidgetManager.child_counts : key -> usize
    nextWid,        \* the counter behind WidgetId::next()
    nativeKids,     \* native retained tree: handle -> sequence of child handles
    crashed,        \* the native-tree owner panicked
    lastCmd,        \* the command handled by the last dispatch
    lastDiags,      \* runtime-error events reported by the last dispatch
    lastOps,        \* native calls / host signals issued by the last dispatch
    ui,             \* native event loop: "running", "exiting" (Exit signalled), "exited"
    stream,         \* frames the client has written and the host has not read yet
    clientOpen,     \* the client still holds its end of the socket
    rd_pc,          \* read thread: "read" (in its loop), "done" (returned)
    wr_pc,          \* run_socket_server: "drain", "recv", "shutdown", "join",
                    \* "exitapp", "done"
    cmdQueue,       \* EventLoopProxy queue of user events carrying commands
    errQueue,       \* mpsc channel error_tx -> error_rx
    evQueue,        \* mpsc channel event_sender -> event_receiver
    wire,           \* write_msgpack_frame calls on the socket, in order
    readLog,        \* history: commands decoded by the read thread, in order
    dispLog         \* history: client commands handled by on_action, in order

regVars == <<widgets, child_counts, nextWid, nativeKids, crashed,
             lastCmd, lastDiags, lastOps, ui>>

ipcVars == <<stream, clientOpen, rd_pc, wr_pc, cmdQueue, errQueue, evQueue,
             wire, readLog, dispLog>>

vars == <<widgets, child_counts, nextWid, nativeKids, crashed,
          lastCmd, lastDiags, lastOps, ui,
          stream, clientOpen, rd_pc, wr_pc, cmdQueue, errQueue, evQueue,
          wire, readLog, dispLog>>

----
\* Bounds of the model.
MaxCreates == 3
MaxKindCreates == 1
MaxAttachCreates == 2
MaxJsCreates == 3
MaxWireFrames == 2
MaxResetFrames == 1
MaxLabelCreates == 4
MaxFreshCreates == 4
MaxByteFrames == 2
MaxActions == 2
MaxValues == 2
MaxFatalFrames == 2
MaxReports == 2
MaxFrames == 3
MaxUiEvents == 1

\* Program constants.
RootKey == "__root__"
None == "none"
RootWid == 0

Ids == {"a", "b", RootKey}
ParentOpts == Ids \cup {None}

AllKinds == {"Label", "Button", "Svg", "TextInput", "TextArea", "Checkbox",
             "Container", "Flex", "SizedBox", "ProgressBar", "Spinner",
             "Slider", "Image", "Prose", "Grid", "ZStack", "Portal",
             "Hoverable", "Custom"}

\* One kind for each way add_to_parent and the create functions treat a kind.
TreeKinds == {"Flex", "Button", "SizedBox", "Hoverable", "Label"}

EmptyMap == [x \in {} |-> TRUE]

Put(m, k, v) == [x \in (DOMAIN m) \cup {k} |-> IF x = k THEN v ELSE m[x]]

Drop(m, S) == [x \in (DOMAIN m) \ S |-> m[x]]

----
\* ---------------- widget registry (src/ui/widget_manager.rs) -------------

parent_key_of(parent_id) == IF parent_id = None THEN RootKey ELSE parent_id

parent_matches_exact(info, parent_key) == info.parent_id = parent_key

parent_matches(info, parent_key) ==
    IF info.parent_id # None THEN info.parent_id = parent_key
                             ELSE parent_key = RootKey

children_of(W, parent_key) ==
    {id \in DOMAIN W : parent_matches(W[id], parent_key)}

current_child_count(W, parent_key) == Cardinality(children_of(W, parent_key))

\* next_child_index returns the live count and stores count + 1.
next_child_index(W, parent_key) == current_child_count(W, parent_key)

next_child_index_counts(W, C, parent_key) ==
    Put(C, parent_key, current_child_count(W, parent_key) + 1)

\* Mutant: only the direct children are collected.
collect_children_only(W, parent_id) ==
    {id \in DOMAIN W : W[id].parent_id = parent_id}

RECURSIVE collect_descendants(_, _)
collect_descendants(W, parent_id) ==
    LET children == {id \in DOMAIN W : W[id].parent_id = parent_id}
    IN  children \cup UNION {collect_descendants(W, c) : c \in children}

\* sort_by_key(child_index) over ids collected from a HashMap: ties are left
\* in iteration order, which is unspecified, so every tie order is possible.
sorted_orders(W, child_ids) ==
    {f \in [child_ids -> 0 .. (Cardinality(child_ids) - 1)] :
        /\ \A x, y \in child_ids : x # y => f[x] # f[y]
        /\ \A x, y \in child_ids :
              W[x].child_index < W[y].child_index => f[x] < f[y]}

recompute_parent_state(W, parent_key) ==
    LET child_ids == children_of(W, parent_key)
    IN  {[id \in DOMAIN W |->
            IF id \in child_ids THEN [W[id] EXCEPT !.child_index = f[id]]
                                ELSE W[id]] : f \in sorted_orders(W, child_ids)}

recompute_parent_counts(W, C, parent_key) ==
    Put(C, parent_key, current_child_count(W, parent_key))

\* Mutant: no early return for an absent id; the root is recomputed anyway.
remove_widget_subtree_no_guard(W, id) ==
    LET W1 == Drop(W, {id})
        W2 == Drop(W1, collect_descendants(W1, id))
    IN  recompute_parent_state(
            W2, IF id \in DOMAIN W THEN parent_key_of(W[id].parent_id) ELSE RootKey)

\* The set of registry states remove_widget_subtree can leave.
remove_widget_subtree(W, id) ==
    IF id \notin DOMAIN W THEN {W}
    ELSE LET W1 == Drop(W, {id})
             W2 == Drop(W1, collect_descendants(W1, id))
         IN  recompute_parent_state(W2, parent_key_of(W[id].parent_id))

remove_widget_subtree_counts(W, C, id) ==
    IF id \notin DOMAIN W THEN C
    ELSE LET W1 == Drop(W, {id})
             desc == collect_descendants(W1, id)
             W2 == Drop(W1, desc)
             C1 == Drop(C, desc \cup {id})
         IN  recompute_parent_counts(W2, C1, parent_key_of(W[id].parent_id))

----
\* ---------------- native retained tree (masonry, as the handlers use it) --

\* Children a Button is constructed with inside its inner Flex
\* (src/ui/widgets/button.rs: the svg icon, then the label).
button_builtin_children(wid, hasText, hasSvg) ==
    (IF hasSvg THEN <<0 - (2 * wid)>> ELSE <<>>) \o
    (IF hasText THEN <<0 - (2 * wid) - 1>> ELSE <<>>)

SeqRange(s) == {s[i] : i \in 1 .. Len(s)}

RECURSIVE native_subtree(_, _)
native_subtree(N, h) ==
    IF h \notin DOMAIN N THEN {h}
    ELSE {h} \cup UNION {native_subtree(N, c) : c \in SeqRange(N[h])}

RemoveAt(s, i) == [j \in 1 .. (Len(s) - 1) |-> IF j < i THEN s[j] ELSE s[j + 1]]

\* Flex::add_child / ZStack::insert_child: append the new widget h.
native_add_child(N, p, h, kids0) ==
    [x \in (DOMAIN N) \cup {h} |->
        IF x = h THEN kids0 ELSE IF x = p THEN Append(N[p], h) ELSE N[x]]

\* SizedBox::set_child / Hoverable::set_child: the new widget replaces the
\* child slot; a previous child leaves the tree with its subtree.
native_set_child(N, p, h, kids0) ==
    LET gone == UNION {native_subtree(N, c) : c \in SeqRange(N[p])}
    IN  [x \in ((DOMAIN N) \ gone) \cup {h} |->
            IF x = h THEN kids0 ELSE IF x = p THEN <<h>> ELSE N[x]]

\* Flex::remove_child(idx) / ZStack::remove_child(idx), idx in range.
native_remove_child(N, p, idx) ==
    LET gone == native_subtree(N, N[p][idx + 1])
    IN  [x \in (DOMAIN N) \ gone |->
            IF x = p THEN RemoveAt(N[p], idx + 1) ELSE N[x]]

\* SizedBox::remove_child: empties the slot.
native_clear_child(N, p) ==
    LET gone == UNION {native_subtree(N, c) : c \in SeqRange(N[p])}
    IN  [x \in (DOMAIN N) \ gone |-> IF x = p THEN <<>> ELSE N[x]]

----
\* ---------------- command dispatcher ------------------------------------

\* Kinds whose create function also initialises child_counts[id] = 0.
CountedKinds == {"Flex", "Container", "Button", "SizedBox", "Grid", "Portal",
                 "ZStack"}

Diag_fatal(kind) == [kind |-> kind, source |-> "ui-handler", fatal |-> TRUE]

Diag(kind) == [source |-> "ui-handler", kind |-> kind, fatal |-> FALSE]

\* BoxStyle: every field optional (<<>> for None, <<v>> for Some(v)); the
\* numeric field gap and the string field font_family stand for the fields
\* of the two JSON types a one-entry payload can carry.
BoxStyle(gap, font_family) == [gap |-> gap, font_family |-> font_family]

BoxStyleDefault == BoxStyle(<<>>, <<>>)

\* An operation other than a style application carries the empty style.
Op(name, target, arg) ==
    [op |-> name, target |-> target, arg |-> arg, style |-> BoxStyleDefault]

OpStyle(name, target, style) ==
    [op |-> name, target |-> target, arg |-> 0, style |-> style]

Res(W, C, N, crash, diags, ops) ==
    [W |-> W, C |-> C, N |-> N, crashed |-> crash, diags |-> diags, ops |-> ops]

\* RenderRoot::edit_widget on a handle that is no longer in the tree panics.
AttachRes(ok, N, crash, ops) == [ok |-> ok, N |-> N, crashed |-> crash, ops |-> ops]

hoverable_child_count(W, parent_key) ==
    Cardinality({id \in DOMAIN W : W[id].parent_id = parent_key})

\* Mutant of add_to_parent: a parent of any kind is treated as a Flex and a
\* parent that is not live as the root.
add_to_parent_any(N, W, parent_id, wid, kids0) ==
    IF parent_id \in DOMAIN W /\ W[parent_id].widget_id \in DOMAIN N
    THEN AttachRes(TRUE, native_add_child(N, W[parent_id].widget_id, wid, kids0),
                   FALSE, <<Op("Flex::add_child", W[parent_id].widget_id, wid)>>)
    ELSE AttachRes(TRUE, native_add_child(N, RootWid, wid, kids0), FALSE,
                   <<Op("Flex::add_child", RootWid, wid)>>)

add_to_parent(N, W, parent_id, wid, kids0) ==
    IF parent_id = None
    THEN AttachRes(TRUE, native_add_child(N, RootWid, wid, kids0), FALSE,
                   <<Op("Flex::add_child", RootWid, wid)>>)
    ELSE IF parent_id \in DOMAIN W
    THEN LET pk == W[parent_id].kind
             pw == W[parent_id].widget_id
         IN  IF pk \in {"Flex", "Container", "Button"}
             THEN IF pw \in DOMAIN N
                  THEN AttachRes(TRUE, native_add_child(N, pw, wid, kids0), FALSE,
                                 <<Op("Flex::add_child", pw, wid)>>)
                  ELSE AttachRes(FALSE, N, TRUE, <<>>)
             ELSE IF pk = "SizedBox"
             THEN IF pw \in DOMAIN N
                  THEN AttachRes(TRUE, native_set_child(N, pw, wid, kids0), FALSE,
                                 <<Op("SizedBox::set_child", pw, wid)>>)
                  ELSE AttachRes(FALSE, N, TRUE, <<>>)
             ELSE IF pk = "ZStack"
             THEN IF pw \in DOMAIN N
                  THEN AttachRes(TRUE, native_add_child(N, pw, wid, kids0), FALSE,
                                 <<Op("ZStack::insert_child", pw, wid)>>)
                  ELSE AttachRes(FALSE, N, TRUE, <<>>)
             ELSE IF pk = "Hoverable"
             THEN IF hoverable_child_count(W, parent_id) > 0
                  THEN AttachRes(FALSE, N, FALSE, <<>>)
                  ELSE IF pw \in DOMAIN N
                  THEN AttachRes(TRUE, native_set_child(N, pw, wid, kids0), FALSE,
                                 <<Op("Hoverable::set_child", pw, wid)>>)
                  ELSE AttachRes(FALSE, N, TRUE, <<>>)
             ELSE AttachRes(FALSE, N, FALSE, <<>>)
    ELSE AttachRes(FALSE, N, FALSE, <<>>)

register_widget(W, id, info) == Put(W, id, info)

WidgetInfo(wid, kind, parent_id, child_index) ==
    [widget_id |-> wid, kind |-> kind, parent_id |-> parent_id,
     child_index |-> child_index]

\* create_and_add_widget followed by the kind's create function.
create_and_add_widget(W, C, N, wid, cmd) ==
    LET parent_key  == parent_key_of(cmd.parent_id)
        child_index == next_child_index(W, parent_key)
        C1    == next_child_index_counts(W, C, parent_key)
        kids0 == IF cmd.kind = "Button"
                 THEN button_builtin_children(wid, cmd.hasText, cmd.hasSvg)
                 ELSE <<>>
        info  == WidgetInfo(wid, cmd.kind, cmd.parent_id, child_index)
    IN  IF cmd.kind = "Image" /\ ~cmd.dataOk
        THEN Res(W, C1, N, FALSE, <<>>, <<>>)
        ELSE LET a == add_to_parent(N, W, cmd.parent_id, wid, kids0)
             IN  IF a.crashed THEN Res(W, C1, N, TRUE, <<>>, <<>>)
                 ELSE IF ~a.ok THEN Res(W, C1, N, FALSE, <<>>, <<>>)
                 ELSE Res(IF cmd.kind = "Hoverable"
                             THEN register_widget(W, cmd.id, info)
                             ELSE Put(W, cmd.id, info),
                          IF cmd.kind \in CountedKinds THEN Put(C1, cmd.id, 0) ELSE C1,
                          a.N, FALSE, <<>>, a.ops)

\* Mutant of edit_widget: the record of the widget edited is dropped.
edit_widget_forgets(W, C, N, wid, name, arg) ==
    Res([id \in {i \in DOMAIN W : W[i].widget_id # wid} |-> W[id]], C, N, FALSE,
        <<>>, <<Op(name, wid, arg)>>)

\* render_root.edit_widget(widget_id, ...) applying one in-place mutation.
edit_widget(W, C, N, wid, name, arg) ==
    IF wid \in DOMAIN N THEN Res(W, C, N, FALSE, <<>>, <<Op(name, wid, arg)>>)
                        ELSE Res(W, C, N, TRUE, <<>>, <<>>)

edit_style(W, C, N, wid, style) ==
    IF wid \in DOMAIN N
    THEN Res(W, C, N, FALSE, <<>>, <<OpStyle("apply_style", wid, style)>>)
    ELSE Res(W, C, N, TRUE, <<>>, <<>>)

\* Mutant of report: the anomaly is logged locally and no event is sent.
report_silent(W, C, N, kind) == Res(W, C, N, FALSE, <<>>, <<>>)

\* report_runtime_error: one runtime-error event on the event channel.
report(W, C, N, kind) == Res(W, C, N, FALSE, <<Diag(kind)>>, <<>>)

SetWidgetText(W, C, N, cmd) ==
    IF cmd.id \in DOMAIN W
    THEN LET info == W[cmd.id]
         IN  CASE info.kind = "Label" ->
                    edit_widget(W, C, N, info.widget_id, "Label::set_text", 0)
               [] info.kind = "Prose" ->
                    edit_widget(W, C, N, info.widget_id, "Prose::reset_text", 0)
               [] info.kind = "TextInput" ->
                    edit_widget(W, C, N, info.widget_id, "TextInput::reset_text", 0)
               [] info.kind = "Button" -> report(W, C, N, "Unsupported")
               [] info.kind = "Svg" ->
                    edit_widget(W, C, N, info.widget_id, "SvgWidget::set_svg_source", 0)
               [] OTHER -> report(W, C, N, "Unsupported")
    ELSE report(W, C, N, "NotFound")

SetWidgetValue(W, C, N, cmd) ==
    IF cmd.id \in DOMAIN W
    THEN LET info == W[cmd.id]
         IN  CASE info.kind = "ProgressBar" ->
                    edit_widget(W, C, N, info.widget_id, "ProgressBar::set_progress", 0)
               [] info.kind = "Slider" ->
                    edit_widget(W, C, N, info.widget_id, "Slider::set_value", 0)
               [] OTHER -> report(W, C, N, "Unsupported")
    ELSE report(W, C, N, "NotFound")

SetWidgetChecked(W, C, N, cmd) ==
    IF cmd.id \in DOMAIN W
    THEN LET info == W[cmd.id]
         IN  IF info.kind = "Checkbox"
             THEN edit_widget(W, C, N, info.widget_id, "Checkbox::set_checked", 0)
             ELSE report(W, C, N, "Unsupported")
    ELSE report(W, C, N, "NotFound")

StyledKinds == {"Label", "Button", "Svg", "Flex", "Container", "ProgressBar",
                "Slider", "SizedBox"}

SetWidgetStyle(W, C, N, id, style) ==
    IF id = RootKey
    THEN Res(W, C, N, FALSE, <<>>, <<OpStyle("apply_flex_style", RootWid, style)>>)
    ELSE IF id \in DOMAIN W
    THEN LET info == W[id]
         IN  IF info.kind \in StyledKinds
             THEN edit_style(W, C, N, info.widget_id, style)
             ELSE IF info.kind = "Image"
             THEN Res(W, C, N, FALSE, <<>>, <<>>)
             ELSE report(W, C, N, "StyleNotSupported")
    ELSE report(W, C, N, "NotFound")

\* ---- texts and JSON values of the style path.  A text is a sequence of
\* characters; the texts of the model use one digit, one letter, the quote,
\* the braces and the words true and false.
Quote == "\""
Digits == {"7"}
TrueText == <<"t", "r", "u", "e">>
FalseText == <<"f", "a", "l", "s", "e">>
EmptyContainers == {<<"{", "}">>, <<"[", "]">>}

JNum(v) == [t |-> "num", v |-> v]
JBool(v) == [t |-> "bool", v |-> v]
JStr(v) == [t |-> "str", v |-> v]
JObj(v) == [t |-> "obj", v |-> v]
JInvalid == [t |-> "invalid", v |-> <<>>]

\* value.parse::<f64>() on the texts of the model: a run of digits.
parse_f64(text) == text # <<>> /\ \A i \in 1 .. Len(text) : text[i] \in Digits

\* value.strip_prefix('"').and_then(|s| s.strip_suffix('"')).unwrap_or(&value)
strip_quotes(text) ==
    IF Len(text) >= 2 /\ text[1] = Quote /\ text[Len(text)] = Quote
    THEN SubSeq(text, 2, Len(text) - 1)
    ELSE text

\* Mutant of parsed_value: every value is taken as a string, as it is.
parsed_value_as_string(value) == JStr(value)

\* The typed JSON value SetStyleProperty builds from the string value.
parsed_value(value) ==
    IF parse_f64(value) THEN JNum(value)
    ELSE IF value = TrueText THEN JBool(TrueText)
    ELSE IF value = FalseText THEN JBool(FalseText)
    ELSE IF /\ value # <<>>
            /\ value[1] \in {"{", "["}
            /\ value \in EmptyContainers
    THEN JObj(value)
    ELSE JStr(strip_quotes(value))

\* serde_json's text of a string: a quote inside is written escaped.
escape(text) == [i \in 1 .. Len(text) |-> IF text[i] = Quote THEN "\\\"" ELSE text[i]]

unescape(text) == [i \in 1 .. Len(text) |-> IF text[i] = "\\\"" THEN Quote ELSE text[i]]

\* serde_json::Value::to_string: an f64 is written with its fraction.
json_text(jv) ==
    CASE jv.t = "num" -> jv.v \o <<".", "0">>
      [] jv.t = "str" -> <<Quote>> \o escape(jv.v) \o <<Quote>>
      [] OTHER -> jv.v

\* serde_json::json!({ &property: parsed_value }).to_string()
one_entry_json(property, jv) ==
    <<"{", Quote, property, Quote, ":">> \o json_text(jv) \o <<"}">>

\* serde_json's reading of one JSON value.
parse_json_value(text) ==
    IF text \in {TrueText, FalseText} THEN JBool(text)
    ELSE IF text \in EmptyContainers THEN JObj(text)
    ELSE IF parse_f64(text) THEN JNum(text)
    ELSE IF /\ Len(text) >= 3
            /\ SubSeq(text, Len(text) - 1, Len(text)) = <<".", "0">>
            /\ parse_f64(SubSeq(text, 1, Len(text) - 2))
    THEN JNum(SubSeq(text, 1, Len(text) - 2))
    ELSE IF /\ Len(text) >= 2
            /\ text[1] = Quote
            /\ text[Len(text)] = Quote
            /\ \A i \in 2 .. (Len(text) - 1) : text[i] # Quote
    THEN JStr(unescape(SubSeq(text, 2, Len(text) - 1)))
    ELSE JInvalid

\* serde_json::from_str::<BoxStyle>(text) for an object of at most one entry:
\* a field of the wrong JSON type or a text that is no JSON is an error, a
\* key that names no field is skipped.
from_str_BoxStyle(text) ==
    IF text = <<"{", "}">> THEN [ok |-> TRUE, style |-> BoxStyleDefault]
    ELSE IF /\ Len(text) >= 7
            /\ SubSeq(text, 1, 2) = <<"{", Quote>>
            /\ SubSeq(text, 4, 5) = <<Quote, ":">>
            /\ text[Len(text)] = "}"
    THEN LET key == text[3]
             jv  == parse_json_value(SubSeq(text, 6, Len(text) - 1))
         IN  IF jv.t = "invalid" THEN [ok |-> FALSE, style |-> BoxStyleDefault]
             ELSE IF key = "gap"
             THEN IF jv.t = "num"
                  THEN [ok |-> TRUE, style |-> BoxStyle(<<jv.v>>, <<>>)]
                  ELSE [ok |-> FALSE, style |-> BoxStyleDefault]
             ELSE IF key = "font_family"
             THEN IF jv.t = "str"
                  THEN [ok |-> TRUE, style |-> BoxStyle(<<>>, <<jv.v>>)]
                  ELSE [ok |-> FALSE, style |-> BoxStyleDefault]
             ELSE [ok |-> TRUE, style |-> BoxStyleDefault]
    ELSE [ok |-> FALSE, style |-> BoxStyleDefault]

\* handle_client_message(SetWidgetStyle):
\* serde_json::from_str(&style_json).unwrap_or_default()
style_of_json(style_json) ==
    LET r == from_str_BoxStyle(style_json)
    IN  IF r.ok THEN r.style ELSE BoxStyleDefault

\* SetStyleProperty: the value is re-encoded as a typed JSON value, written
\* into a one-entry object, read back as a BoxStyle (BoxStyle::default() on a
\* parse failure) and the command re-dispatched as SetWidgetStyle.
SetStyleProperty(W, C, N, cmd) ==
    LET json_str == one_entry_json(cmd.property, parsed_value(cmd.value))
        r     == from_str_BoxStyle(json_str)
        style == IF r.ok THEN r.style ELSE BoxStyleDefault
    IN  SetWidgetStyle(W, C, N, cmd.id, style)

SetWidgetVisible(W, C, N, cmd) == report(W, C, N, "NotImplemented")

SetImageData(W, C, N, cmd) ==
    IF cmd.id \in DOMAIN W
    THEN LET info == W[cmd.id]
         IN  IF info.kind = "Image"
             THEN IF cmd.dataOk
                  THEN edit_widget(W, C, N, info.widget_id, "Image::set_image_data", 0)
                  ELSE Res(W, C, N, FALSE, <<>>, <<>>)
             ELSE report(W, C, N, "Unsupported")
    ELSE report(W, C, N, "NotFound")

\* Mutant of HostSignal: the command is reported as unsupported instead.
HostSignal_unsupported(W, C, N, name) ==
    Res(W, C, N, FALSE, <<Diag("Unsupported")>>, <<>>)

\* render_root.emit_signal(RenderRootSignal::...): the only effect of the
\* window commands.
HostSignal(W, C, N, name) == Res(W, C, N, FALSE, <<>>, <<Op(name, RootWid, 0)>>)

\* The native positional removal of RemoveWidget, by parent kind.
remove_native(W, C, N, parent_key, safe_index, diags) ==
    IF parent_key = RootKey
    THEN IF safe_index < Len(N[RootWid])
         THEN Res(W, C, native_remove_child(N, RootWid, safe_index), FALSE, diags,
                  <<Op("Flex::remove_child", RootWid, safe_index)>>)
         ELSE Res(W, C, N, TRUE, diags, <<>>)
    ELSE IF parent_key \in DOMAIN W
    THEN LET pk == W[parent_key].kind
             pw == W[parent_key].widget_id
         IN  IF pk \in {"Flex", "Container", "Button", "ZStack"}
             THEN IF pw \in DOMAIN N /\ safe_index < Len(N[pw])
                  THEN Res(W, C, native_remove_child(N, pw, safe_index), FALSE, diags,
                           <<Op(IF pk = "ZStack" THEN "ZStack::remove_child"
                                                 ELSE "Flex::remove_child",
                                pw, safe_index)>>)
                  ELSE Res(W, C, N, TRUE, diags, <<>>)
             ELSE IF pk = "SizedBox"
             THEN IF pw \in DOMAIN N
                  THEN Res(W, C, native_clear_child(N, pw), FALSE, diags,
                           <<Op("SizedBox::remove_child", pw, 0)>>)
                  ELSE Res(W, C, N, TRUE, diags, <<>>)
             ELSE Res(W, C, N, FALSE, Append(diags, Diag("ParentNoRemoval")), <<>>)
    ELSE Res(W, C, N, FALSE, Append(diags, Diag("ParentNotFound")), <<>>)

\* let safe_index = if child_index < sibling_count { child_index }
\*                  else { sibling_count - 1 }
clamp_index(ci, n) == IF ci < n THEN ci ELSE n - 1

\* The results RemoveWidget can leave (the recompute's tie order is open).
RemoveWidget(W, C, N, cmd) ==
    IF cmd.id \in DOMAIN W
    THEN LET info == W[cmd.id]
             parent_key == parent_key_of(info.parent_id)
             child_index == info.child_index
             sibling_count == current_child_count(W, parent_key)
             Cr == remove_widget_subtree_counts(W, C, cmd.id)
         IN  IF sibling_count = 0
             THEN {Res(Wr, Cr, N, FALSE, <<Diag("NoSiblings")>>, <<>>) :
                      Wr \in remove_widget_subtree(W, cmd.id)}
             ELSE LET stale == ~(child_index < sibling_count)
                      safe_index == clamp_index(child_index, sibling_count)
                      d0 == IF stale THEN <<Diag("StaleIndex")>> ELSE <<>>
                      n == remove_native(W, C, N, parent_key, safe_index, d0)
                  IN  IF n.crashed THEN {n}
                      ELSE {Res(Wr, Cr, n.N, FALSE, n.diags, n.ops) :
                               Wr \in remove_widget_subtree(W, cmd.id)}
    ELSE {Res(W, C, N, FALSE, <<>>, <<>>)}

\* handle_client_command: the results of one command on (registry, native tree).
handle_client_command(W, C, N, wid, cmd) ==
    CASE cmd.type = "CreateWidget"     -> {create_and_add_widget(W, C, N, wid, cmd)}
      [] cmd.type = "RemoveWidget"     -> RemoveWidget(W, C, N, cmd)
      [] cmd.type = "SetWidgetText"    -> {SetWidgetText(W, C, N, cmd)}
      [] cmd.type = "SetWidgetValue"   -> {SetWidgetValue(W, C, N, cmd)}
      [] cmd.type = "SetWidgetChecked" -> {SetWidgetChecked(W, C, N, cmd)}
      [] cmd.type = "SetWidgetStyle"   -> {SetWidgetStyle(W, C, N, cmd.id, cmd.style)}
      [] cmd.type = "SetStyleProperty" -> {SetStyleProperty(W, C, N, cmd)}
      [] cmd.type = "SetWidgetVisible" -> {SetWidgetVisible(W, C, N, cmd)}
      [] cmd.type = "SetImageData"     -> {SetImageData(W, C, N, cmd)}
      [] cmd.type = "SetTitle"         -> {HostSignal(W, C, N, "SetTitle")}
      [] cmd.type = "ResizeWindow"     -> {HostSignal(W, C, N, "SetSize")}
      [] cmd.type = "CloseWindow"      -> {HostSignal(W, C, N, "Exit")}
      [] cmd.type = "ExitApp"          -> {HostSignal(W, C, N, "Exit")}

----
\* ---------------- commands a client can send ------------------------------

CreateCmd(id, kind, parent_id, hasText, hasSvg, dataOk) ==
    [type |-> "CreateWidget", id |-> id, kind |-> kind, parent_id |-> parent_id,
     hasText |-> hasText, hasSvg |-> hasSvg, dataOk |-> dataOk]

IdCmd(type, id) == [type |-> type, id |-> id]

StyleCmd(id, style) == [type |-> "SetWidgetStyle", id |-> id, style |-> style]

PropCmd(id, property, value) ==
    [type |-> "SetStyleProperty", id |-> id, property |-> property, value |-> value]

DataCmd(id, dataOk) == [type |-> "SetImageData", id |-> id, dataOk |-> dataOk]

PlainCmd(type) == [type |-> type]

NoCmd == [type |-> "none", id |-> None]

Styles == {BoxStyleDefault, BoxStyle(<<<<"7">>>>, <<>>)}
Properties == {"gap", "font_family", "bogus"}

\* The string values of SetStyleProperty: a number, a word, a boolean, a
\* quoted word, an empty object, an opening brace.
PropValues == {<<"7">>, <<"x">>, TrueText, <<Quote, "x", Quote>>, <<"{", "}">>,
               <<"{">>}

\* Payload fields that no modelled kind reads are kept at one value.
CreateCmds(kinds, svgOpts) ==
    {c \in [type : {"CreateWidget"}, id : Ids, kind : kinds, parent_id : ParentOpts,
            hasText : BOOLEAN, hasSvg : svgOpts, dataOk : BOOLEAN] :
        /\ (c.kind # "Button" => ~c.hasText /\ ~c.hasSvg)
        /\ (c.kind # "Image" => c.dataOk)}

----
\* ---------------- the native-tree owner (AppJsDriver::on_action) ----------

InitRegistry ==
    /\ widgets = EmptyMap
    /\ child_counts = [k \in {RootKey} |-> 0]
    /\ nextWid = 1
    /\ nativeKids = [h \in {RootWid} |-> <<>>]
    /\ crashed = FALSE
    /\ lastCmd = NoCmd
    /\ lastDiags = <<>>
    /\ lastOps = <<>>
    /\ ui = "running"

InitSession ==
    /\ clientOpen = TRUE
    /\ rd_pc = "read"
    /\ wr_pc = "drain"
    /\ cmdQueue = <<>>
    /\ errQueue = <<>>
    /\ evQueue = <<>>
    /\ wire = <<>>
    /\ readLog = <<>>
    /\ dispLog = <<>>

Init ==
    /\ InitRegistry
    /\ InitSession
    /\ stream = <<>>

IsExit(cmd) == cmd.type \in {"CloseWindow", "ExitApp"}

\* What the model remembers of the command just handled: its variant and id.
CmdTag(cmd) ==
    [type |-> cmd.type,
     id |-> IF cmd.type \in {"SetTitle", "ResizeWindow", "CloseWindow", "ExitApp"}
            THEN None ELSE cmd.id]

\* One call of handle_client_command from on_action.
Dispatch(cmd) ==
    /\ ui # "exited"
    /\ ~crashed
    /\ \E r \in handle_client_command(widgets, child_counts, nativeKids, nextWid, cmd) :
          /\ widgets' = r.W
          /\ child_counts' = r.C
          /\ nativeKids' = r.N
          /\ crashed' = r.crashed
          /\ lastDiags' = r.diags
          /\ lastOps' = r.ops
    /\ nextWid' = IF cmd.type = "CreateWidget" THEN nextWid + 1 ELSE nextWid
    /\ lastCmd' = CmdTag(cmd)
    /\ ui' = IF IsExit(cmd) /\ ui = "running" THEN "exiting" ELSE ui

DoCreateWidget ==
    /\ nextWid <= MaxCreates
    /\ \E cmd \in CreateCmds(TreeKinds, {FALSE}) : Dispatch(cmd)
    /\ UNCHANGED ipcVars

DoCreateAnyKind ==
    /\ nextWid <= MaxKindCreates
    /\ \E cmd \in CreateCmds(AllKinds, BOOLEAN) : Dispatch(cmd)
    /\ UNCHANGED ipcVars

DoRemoveWidget ==
    /\ \E id \in Ids : Dispatch(IdCmd("RemoveWidget", id))
    /\ UNCHANGED ipcVars

DoSetWidgetText ==
    /\ \E id \in Ids : Dispatch(IdCmd("SetWidgetText", id))
    /\ UNCHANGED ipcVars

DoSetWidgetValue ==
    /\ \E id \in Ids : Dispatch(IdCmd("SetWidgetValue", id))
    /\ UNCHANGED ipcVars

DoSetWidgetChecked ==
    /\ \E id \in Ids : Dispatch(IdCmd("SetWidgetChecked", id))
    /\ UNCHANGED ipcVars

DoSetWidgetStyle ==
    /\ \E id \in Ids, st \in Styles : Dispatch(StyleCmd(id, st))
    /\ UNCHANGED ipcVars

DoSetStyleProperty ==
    /\ \E id \in Ids, pr \in Properties, v \in PropValues :
          Dispatch(PropCmd(id, pr, v))
    /\ UNCHANGED ipcVars

DoSetWidgetVisible ==
    /\ \E id \in Ids : Dispatch(IdCmd("SetWidgetVisible", id))
    /\ UNCHANGED ipcVars

DoSetImageData ==
    /\ \E id \in Ids, d \in BOOLEAN : Dispatch(DataCmd(id, d))
    /\ UNCHANGED ipcVars

\* The registry under CreateWidget and RemoveWidget.
Next ==
    \/ DoCreateWidget
    \/ DoRemoveWidget

Spec == Init /\ [][Next]_vars

\* Every widget kind under the commands that address one widget.
NextKinds ==
    \/ DoCreateAnyKind
    \/ DoSetWidgetText
    \/ DoSetWidgetValue
    \/ DoSetWidgetChecked
    \/ DoSetWidgetStyle
    \/ DoSetStyleProperty
    \/ DoSetWidgetVisible
    \/ DoSetImageData

SpecKinds == Init /\ [][NextKinds]_vars

\* The creates of every kind (a Button without an icon).
AttachCmds == CreateCmds(AllKinds, {FALSE})

DoCreateAttach ==
    /\ nextWid <= MaxAttachCreates
    /\ \E cmd \in AttachCmds : Dispatch(cmd)
    /\ UNCHANGED ipcVars

DoSetTitle ==
    /\ Dispatch(PlainCmd("SetTitle"))
    /\ UNCHANGED ipcVars

DoResizeWindow ==
    /\ Dispatch(PlainCmd("ResizeWindow"))
    /\ UNCHANGED ipcVars

DoCloseWindow ==
    /\ Dispatch(PlainCmd("CloseWindow"))
    /\ UNCHANGED ipcVars

DoExitApp ==
    /\ Dispatch(PlainCmd("ExitApp"))
    /\ UNCHANGED ipcVars

\* The window commands among creates and removals of every kind.
NextWindow ==
    \/ DoCreateAttach
    \/ DoRemoveWidget
    \/ DoSetTitle
    \/ DoResizeWindow
    \/ DoCloseWindow
    \/ DoExitApp

SpecWindow == Init /\ [][NextWindow]_vars

DoCreateLabel ==
    /\ nextWid <= MaxLabelCreates
    /\ \E cmd \in CreateCmds({"Label"}, {FALSE}) : Dispatch(cmd)
    /\ UNCHANGED ipcVars

\* Longer sequences of creates and removals, of leaf widgets only.
NextLabels ==
    \/ DoCreateLabel
    \/ DoRemoveWidget

SpecLabels == Init /\ [][NextLabels]_vars

\* A client that never names a live id in CreateWidget: one more identifier,
\* containers and leaves.
FreshIds == Ids \cup {"c"}

FreshCmds ==
    {CreateCmd(id, kind, parent_id, FALSE, FALSE, TRUE) :
        id \in FreshIds, kind \in {"Flex", "Label"}, parent_id \in FreshIds \cup {None}}

DoCreateFresh ==
    /\ nextWid <= MaxFreshCreates
    /\ \E cmd \in FreshCmds : cmd.id \notin DOMAIN widgets /\ Dispatch(cmd)
    /\ UNCHANGED ipcVars

DoRemoveFresh ==
    /\ \E id \in FreshIds : Dispatch(IdCmd("RemoveWidget", id))
    /\ UNCHANGED ipcVars

NextFresh ==
    \/ DoCreateFresh
    \/ DoRemoveFresh

SpecFresh == Init /\ [][NextFresh]_vars

\* Parents and children of every kind under CreateWidget and RemoveWidget.
NextAttach ==
    \/ DoCreateAttach
    \/ DoRemoveWidget

SpecAttach == Init /\ [][NextAttach]_vars

----
\* ---------------- handle_js_command (ui_thread/handler.rs) ----------------
\* The dispatcher AppJsDriver::on_action calls.  Its WidgetManager keeps
\* child_counts as a counter per parent key and has no removal of records.

JsKinds == {"Flex", "SizedBox", "Label", "Button"}

\* WidgetManager::next_child_index of ui_thread/handler.rs: the counter of
\* the parent key is returned and incremented.
js_next_child_index(C, parent_key) ==
    LET idx == IF parent_key \in DOMAIN C THEN C[parent_key] ELSE 0
    IN  [idx |-> idx, C |-> Put(C, parent_key, idx + 1)]

js_add_to_parent(N, W, parent_id, wid) ==
    IF parent_id = None
    THEN AttachRes(TRUE, native_add_child(N, RootWid, wid, <<>>), FALSE,
                   <<Op("Flex::add_child", RootWid, wid)>>)
    ELSE IF parent_id \in DOMAIN W
    THEN LET pk == W[parent_id].kind
             pw == W[parent_id].widget_id
         IN  IF pk \in {"Flex", "Container"}
             THEN IF pw \in DOMAIN N
                  THEN AttachRes(TRUE, native_add_child(N, pw, wid, <<>>), FALSE,
                                 <<Op("Flex::add_child", pw, wid)>>)
                  ELSE AttachRes(FALSE, N, TRUE, <<>>)
             ELSE IF pk = "SizedBox"
             THEN IF pw \in DOMAIN N
                  THEN AttachRes(TRUE, native_set_child(N, pw, wid, <<>>), FALSE,
                                 <<Op("SizedBox::set_child", pw, wid)>>)
                  ELSE AttachRes(FALSE, N, TRUE, <<>>)
             ELSE IF pk = "ZStack"
             THEN IF pw \in DOMAIN N
                  THEN AttachRes(TRUE, native_add_child(N, pw, wid, <<>>), FALSE,
                                 <<Op("ZStack::insert_child", pw, wid)>>)
                  ELSE AttachRes(FALSE, N, TRUE, <<>>)
             ELSE AttachRes(FALSE, N, FALSE, <<>>)
    ELSE AttachRes(FALSE, N, FALSE, <<>>)

\* JsCommand::CreateWidget: the index is taken from the counter before the
\* attachment is tried; the record is inserted when add_to_parent returned
\* true.
js_CreateWidget(W, C, N, wid, cmd) ==
    LET parent_key == parent_key_of(cmd.parent_id)
        n    == js_next_child_index(C, parent_key)
        a    == js_add_to_parent(N, W, cmd.parent_id, wid)
        info == WidgetInfo(wid, cmd.kind, cmd.parent_id, n.idx)
    IN  IF a.crashed THEN Res(W, n.C, N, TRUE, <<>>, <<>>)
        ELSE IF ~a.ok THEN Res(W, n.C, N, FALSE, <<>>, <<>>)
        ELSE Res(Put(W, cmd.id, info),
                 IF cmd.kind \in {"Flex", "Container", "ZStack", "Grid"}
                 THEN Put(n.C, cmd.id, 0) ELSE n.C,
                 a.N, FALSE, <<>>, a.ops)

\* JsCommand::RemoveWidget: Flex::remove_child(child_index) on the root or on
\* the parent downcast to Flex; the record stays in widget_manager.widgets.
js_RemoveWidget(W, C, N, cmd) ==
    IF cmd.id \in DOMAIN W
    THEN LET info == W[cmd.id]
             parent_key == parent_key_of(info.parent_id)
         IN  IF parent_key = RootKey
             THEN IF info.child_index < Len(N[RootWid])
                  THEN Res(W, C, native_remove_child(N, RootWid, info.child_index),
                           FALSE, <<>>,
                           <<Op("Flex::remove_child", RootWid, info.child_index)>>)
                  ELSE Res(W, C, N, TRUE, <<>>, <<>>)
             ELSE IF parent_key \in DOMAIN W
             THEN LET pw == W[parent_key].widget_id
                  IN  IF /\ W[parent_key].kind \in {"Flex", "Container"}
                         /\ pw \in DOMAIN N
                         /\ info.child_index < Len(N[pw])
                      THEN Res(W, C, native_remove_child(N, pw, info.child_index),
                               FALSE, <<>>,
                               <<Op("Flex::remove_child", pw, info.child_index)>>)
                      ELSE Res(W, C, N, TRUE, <<>>, <<>>)
             ELSE Res(W, C, N, FALSE, <<>>, <<>>)
    ELSE Res(W, C, N, FALSE, <<>>, <<>>)

handle_js_command(W, C, N, wid, cmd) ==
    CASE cmd.type = "CreateWidget" -> js_CreateWidget(W, C, N, wid, cmd)
      [] cmd.type = "RemoveWidget" -> js_RemoveWidget(W, C, N, cmd)

\* One call of handle_js_command from on_action.
DispatchJs(cmd) ==
    /\ ui # "exited"
    /\ ~crashed
    /\ LET r == handle_js_command(widgets, child_counts, nativeKids, nextWid, cmd)
       IN  /\ widgets' = r.W
           /\ child_counts' = r.C
           /\ nativeKids' = r.N
           /\ crashed' = r.crashed
           /\ lastDiags' = r.diags
           /\ lastOps' = r.ops
    /\ nextWid' = IF cmd.type = "CreateWidget" THEN nextWid + 1 ELSE nextWid
    /\ lastCmd' = CmdTag(cmd)
    /\ ui' = ui

DoJsCreateWidget ==
    /\ nextWid <= MaxJsCreates
    /\ \E cmd \in CreateCmds(JsKinds, {FALSE}) : ~cmd.hasText /\ DispatchJs(cmd)
    /\ UNCHANGED ipcVars

DoJsRemoveWidget ==
    /\ \E id \in Ids : DispatchJs(IdCmd("RemoveWidget", id))
    /\ UNCHANGED ipcVars

NextJs ==
    \/ DoJsCreateWidget
    \/ DoJsRemoveWidget

SpecJs == Init /\ [][NextJs]_vars

----
\* ---------------- transport session (run_socket_server) -------------------

\* The commands the modelled client sends.
IpcCmds ==
    {CreateCmd("a", "Button", None, FALSE, FALSE, TRUE),
     IdCmd("RemoveWidget", "a"),
     IdCmd("SetWidgetText", "a"),
     IdCmd("ExitApp", None)}

\* A frame on the stream decodes to a command, or fails to decode.
Frames == IpcCmds \cup {[type |-> "Malformed", id |-> None]}

Scripts == UNION {[1 .. n -> Frames] : n \in 0 .. MaxFrames}

\* What the stream yields once the connection is unusable: every read fails
\* with an io::Error that is not UnexpectedEof (a reset connection).
IoError == [type |-> "IoError", id |-> None]

Report(source, fatal) == [source |-> source, fatal |-> fatal]

Frame(frame, source, fatal) == [frame |-> frame, source |-> source, fatal |-> fatal]

\* A write to a socket whose peer is gone may fail; otherwise it succeeds.
write_outcomes(open) == IF open THEN {TRUE} ELSE {TRUE, FALSE}

write_msgpack_frame(w, frame, ok) ==
    Append(w, [frame |-> frame.frame, source |-> frame.source,
               fatal |-> frame.fatal, ok |-> ok])

\* Mutant of write_shutdown: the shutdown frame is written on the way out of
\* the loop and again after it.
write_shutdown_twice(w, ok) ==
    write_msgpack_frame(write_msgpack_frame(w, Frame("Shutdown", "-", FALSE), ok),
                        Frame("Shutdown", "-", FALSE), ok)

write_shutdown(w, ok) == write_msgpack_frame(w, Frame("Shutdown", "-", FALSE), ok)

QEntry(cmd, origin) == [cmd |-> cmd, origin |-> origin]

\* Mutant of send: the event is put at the front of the queue.
send_front(q, entry) == <<entry>> \o q

\* JsCommandSender::send: EventLoopProxy::send_event appends to the loop's
\* queue of user events.
send(q, entry) == Append(q, entry)

\* Mutant of runtime_error_from_ui_event: every event is wrapped as a
\* UI-event message.
runtime_error_from_ui_event_wrapped(event) ==
    Frame("UiEvent", event.source, event.fatal)

runtime_error_from_ui_event(event) ==
    IF event.frame = "RuntimeError"
    THEN Frame("RuntimeError", event.source, event.fatal)
    ELSE Frame("UiEvent", event.source, event.fatal)

\* The event loop has returned: the proxy is closed, the event senders dropped.
UiGone == ui = "exited"

\* run_with has returned, with Ok or with Err: EventLoopProxy::send_event fails.
LoopClosed == ui \in {"exited", "failed"}

\* The UiEvent::RuntimeError values report_runtime_error sends for diags.
EventsOf(diags) ==
    [i \in 1 .. Len(diags) |-> Frame("RuntimeError", diags[i].source, diags[i].fatal)]

WidgetActionCount ==
    Cardinality({i \in 1 .. Len(evQueue) : evQueue[i].frame = "UiEvent"})
    + Cardinality({i \in 1 .. Len(wire) : wire[i].frame = "UiEvent"})

InitIpc ==
    /\ InitRegistry
    /\ InitSession
    /\ stream \in Scripts

\* Mutant of ReadFrame: the command is handed over on a rendezvous channel,
\* which takes a command only when the event loop has taken the one before.
ReadFrame_rendezvous ==
    /\ rd_pc = "read"
    /\ ~crashed
    /\ stream # <<>>
    /\ Head(stream) # IoError
    /\ stream' = Tail(stream)
    /\ LET f == Head(stream)
       IN  IF f.type = "Malformed"
           THEN /\ errQueue' = Append(errQueue, Report("socket-read", FALSE))
                /\ UNCHANGED <<rd_pc, cmdQueue, readLog>>
           ELSE /\ readLog' = Append(readLog, f)
                /\ IF LoopClosed
                   THEN /\ errQueue' = Append(errQueue, Report("ui-thread", TRUE))
                        /\ rd_pc' = "done"
                        /\ UNCHANGED cmdQueue
                   ELSE /\ cmdQueue = <<>>
                        /\ cmdQueue' = send(cmdQueue, QEntry(f, "client"))
                        /\ UNCHANGED <<errQueue, rd_pc>>
    /\ UNCHANGED <<regVars, clientOpen, wr_pc, evQueue, wire, dispLog>>

\* Mutant of ReadFrame: the loop goes on after a failed hand-over.
ReadFrame_no_break ==
    /\ rd_pc = "read"
    /\ ~crashed
    /\ stream # <<>>
    /\ Head(stream) # IoError
    /\ stream' = Tail(stream)
    /\ LET f == Head(stream)
       IN  IF f.type = "Malformed"
           THEN /\ errQueue' = Append(errQueue, Report("socket-read", FALSE))
                /\ UNCHANGED <<rd_pc, cmdQueue, readLog>>
           ELSE /\ readLog' = Append(readLog, f)
                /\ IF LoopClosed
                   THEN /\ errQueue' = Append(errQueue, Report("ui-thread", TRUE))
                        /\ UNCHANGED <<rd_pc, cmdQueue>>
                   ELSE /\ cmdQueue' = send(cmdQueue, QEntry(f, "client"))
                        /\ UNCHANGED <<errQueue, rd_pc>>
    /\ UNCHANGED <<regVars, clientOpen, wr_pc, evQueue, wire, dispLog>>

\* read thread: one read_msgpack_frame that returns a frame.
ReadFrame ==
    /\ rd_pc = "read"
    /\ ~crashed
    /\ stream # <<>>
    /\ Head(stream) # IoError
    /\ stream' = Tail(stream)
    /\ LET f == Head(stream)
       IN  IF f.type = "Malformed"
           THEN /\ errQueue' = Append(errQueue, Report("socket-read", FALSE))
                /\ UNCHANGED <<rd_pc, cmdQueue, readLog>>
           ELSE /\ readLog' = Append(readLog, f)
                /\ IF LoopClosed
                   THEN /\ errQueue' = Append(errQueue, Report("ui-thread", TRUE))
                        /\ rd_pc' = "done"
                        /\ UNCHANGED cmdQueue
                   ELSE /\ cmdQueue' = send(cmdQueue, QEntry(f, "client"))
                        /\ UNCHANGED <<errQueue, rd_pc>>
    /\ UNCHANGED <<regVars, clientOpen, wr_pc, evQueue, wire, dispLog>>

\* read thread: read_exact meets the end of the stream.
ReadEof ==
    /\ rd_pc = "read"
    /\ ~crashed
    /\ stream = <<>>
    /\ ~clientOpen
    /\ rd_pc' = "done"
    /\ UNCHANGED <<regVars, stream, clientOpen, wr_pc, cmdQueue, errQueue,
                   evQueue, wire, readLog, dispLog>>

\* write loop: one error_rx.try_recv of the inner loop.
WriterDrain ==
    /\ wr_pc = "drain"
    /\ ~crashed
    /\ IF errQueue # <<>>
       THEN LET rep == Head(errQueue)
            IN  \E ok \in write_outcomes(clientOpen) :
                   /\ wire' = write_msgpack_frame(
                                  wire, Frame("RuntimeError", rep.source,
                                              rep.fatal), ok)
                   /\ errQueue' = Tail(errQueue)
                   /\ wr_pc' = IF ~ok \/ rep.fatal THEN "shutdown" ELSE "drain"
       ELSE /\ wr_pc' = "recv"
            /\ UNCHANGED <<wire, errQueue>>
    /\ UNCHANGED <<regVars, stream, clientOpen, rd_pc, cmdQueue, evQueue,
                   readLog, dispLog>>

\* write loop: event_receiver.recv_timeout(50 ms).
WriterRecv ==
    /\ wr_pc = "recv"
    /\ ~crashed
    /\ IF evQueue # <<>>
       THEN \E ok \in write_outcomes(clientOpen) :
               /\ wire' = write_msgpack_frame(
                              wire, runtime_error_from_ui_event(Head(evQueue)), ok)
               /\ evQueue' = Tail(evQueue)
               /\ wr_pc' = IF ok THEN "drain" ELSE "shutdown"
       ELSE /\ wr_pc' = IF UiGone THEN "shutdown" ELSE "drain"
            /\ UNCHANGED <<wire, evQueue>>
    /\ UNCHANGED <<regVars, stream, clientOpen, rd_pc, cmdQueue, errQueue,
                   readLog, dispLog>>

WriteShutdown ==
    /\ wr_pc = "shutdown"
    /\ ~crashed
    /\ \E ok \in write_outcomes(clientOpen) : wire' = write_shutdown(wire, ok)
    /\ wr_pc' = "join"
    /\ UNCHANGED <<regVars, stream, clientOpen, rd_pc, cmdQueue, errQueue,
                   evQueue, readLog, dispLog>>

JoinReader ==
    /\ wr_pc = "join"
    /\ ~crashed
    /\ rd_pc = "done"
    /\ wr_pc' = "exitapp"
    /\ UNCHANGED <<regVars, stream, clientOpen, rd_pc, cmdQueue, errQueue,
                   evQueue, wire, readLog, dispLog>>

\* Mutant of SendExitApp: the exit signal goes to the front of the queue.
SendExitApp_urgent ==
    /\ wr_pc = "exitapp"
    /\ ~crashed
    /\ cmdQueue' = IF LoopClosed THEN cmdQueue
                   ELSE <<QEntry(IdCmd("ExitApp", None), "server")>> \o cmdQueue
    /\ wr_pc' = "done"
    /\ UNCHANGED <<regVars, stream, clientOpen, rd_pc, errQueue, evQueue, wire,
                   readLog, dispLog>>

SendExitApp ==
    /\ wr_pc = "exitapp"
    /\ ~crashed
    /\ cmdQueue' = IF LoopClosed THEN cmdQueue
                   ELSE send(cmdQueue, QEntry(IdCmd("ExitApp", None), "server"))
    /\ wr_pc' = "done"
    /\ UNCHANGED <<regVars, stream, clientOpen, rd_pc, errQueue, evQueue, wire,
                   readLog, dispLog>>

\* on_action for the user event at the head of the loop's queue.
UiDispatch ==
    /\ cmdQueue # <<>>
    /\ Dispatch(Head(cmdQueue).cmd)
    /\ cmdQueue' = Tail(cmdQueue)
    /\ evQueue' = evQueue \o EventsOf(lastDiags')
    /\ dispLog' = IF Head(cmdQueue).origin = "client"
                  THEN Append(dispLog, Head(cmdQueue).cmd) ELSE dispLog
    /\ UNCHANGED <<stream, clientOpen, rd_pc, wr_pc, errQueue, wire, readLog>>

\* on_action for a widget's own action (a button press).
UiUserEvent ==
    /\ ui = "running"
    /\ ~crashed
    /\ WidgetActionCount < MaxUiEvents
    /\ \E id \in DOMAIN widgets :
          /\ widgets[id].kind \in {"Button", "Checkbox", "Slider"}
          /\ evQueue' = Append(evQueue, Frame("UiEvent", id, FALSE))
    /\ UNCHANGED <<regVars, stream, clientOpen, rd_pc, wr_pc, cmdQueue, errQueue,
                   wire, readLog, dispLog>>

\* The user closes the window.
UserClose ==
    /\ ui = "running"
    /\ ~crashed
    /\ ui' = "exiting"
    /\ UNCHANGED <<widgets, child_counts, nextWid, nativeKids, crashed,
                   lastCmd, lastDiags, lastOps>>
    /\ UNCHANGED ipcVars

\* run_with returns after an Exit signal; run_ui_blocking drops its senders.
UiLoopExit ==
    /\ ui = "exiting"
    /\ ~crashed
    /\ ui' = "exited"
    /\ UNCHANGED <<widgets, child_counts, nextWid, nativeKids, crashed,
                   lastCmd, lastDiags, lastOps>>
    /\ UNCHANGED ipcVars

\* The client closes its end of the socket.
ClientClose ==
    /\ clientOpen
    /\ clientOpen' = FALSE
    /\ UNCHANGED <<regVars, stream, rd_pc, wr_pc, cmdQueue, errQueue, evQueue,
                   wire, readLog, dispLog>>

ReaderStep == ReadFrame \/ ReadEof

WriterStep == WriterDrain \/ WriterRecv \/ WriteShutdown \/ JoinReader \/ SendExitApp

NextIpc ==
    \/ ReadFrame
    \/ ReadEof
    \/ WriterDrain
    \/ WriterRecv
    \/ WriteShutdown
    \/ JoinReader
    \/ SendExitApp
    \/ UiDispatch
    \/ UiUserEvent
    \/ UserClose
    \/ UiLoopExit
    \/ ClientClose

SpecIpc == InitIpc /\ [][NextIpc]_vars

\* The threads are scheduled and the event loop serves its queue; nothing
\* obliges the user to act or the client to close.
FairIpc ==
    /\ InitIpc /\ [][NextIpc]_vars
    /\ WF_vars(ReaderStep)
    /\ WF_vars(WriterStep)
    /\ WF_vars(UiDispatch)
    /\ WF_vars(UiLoopExit)

----
\* ---------------- widget actions (AppJsDriver::on_action) ------------------
\* An action of a native widget reaches on_action with the widget's handle.

\* Mutant of find_js_id: a handle without a record is given the id of some
\* record.
find_js_id_any(W, widget_id) ==
    IF \E id \in DOMAIN W : W[id].widget_id = widget_id
    THEN {id \in DOMAIN W : W[id].widget_id = widget_id}
    ELSE DOMAIN W

\* find_js_id: the ids of the records holding the handle (none: None).
find_js_id(W, widget_id) == {id \in DOMAIN W : W[id].widget_id = widget_id}

\* The kinds whose native widgets emit CheckboxToggled, f64 or ButtonPress.
ActionKinds == {"Checkbox", "Slider", "Button"}

\* The handles of the widgets CreateWidget put in the native tree.
CreatedHandles == {h \in DOMAIN nativeKids : h > 0}

\* on_action for an action that is not a JsCommandAction.
WidgetAction ==
    /\ ui = "running"
    /\ ~crashed
    /\ Len(evQueue) < MaxActions
    /\ \E widget_id \in CreatedHandles :
          /\ \A id \in DOMAIN widgets :
                widgets[id].widget_id = widget_id => widgets[id].kind \in ActionKinds
          /\ lastCmd' = [type |-> "WidgetAction", id |-> None, widget_id |-> widget_id]
          /\ IF find_js_id(widgets, widget_id) = {}
             THEN UNCHANGED evQueue
             ELSE \E id \in find_js_id(widgets, widget_id) :
                     evQueue' = Append(evQueue, Frame("UiEvent", id, FALSE))
    /\ lastDiags' = <<>>
    /\ lastOps' = <<>>
    /\ UNCHANGED <<widgets, child_counts, nextWid, nativeKids, crashed, ui>>
    /\ UNCHANGED <<stream, clientOpen, rd_pc, wr_pc, cmdQueue, errQueue, wire,
                   readLog, dispLog>>

NextActions ==
    \/ DoCreateWidget
    \/ DoRemoveWidget
    \/ WidgetAction

SpecActions == Init /\ [][NextActions]_vars

----
\* ---------------- the two write_all calls of a frame ------------------------
\* write_msgpack_frame puts a frame on the stream with two calls, one for the
\* length prefix and one for the payload; the other threads run between them.
\* Here wire holds one entry for each write_all, with the thread that made it.

ByteScripts == UNION {[1 .. n -> Frames] : n \in 0 .. MaxByteFrames}

Chunk(frame, part, by, ok) ==
    [frame |-> frame.frame, source |-> frame.source, fatal |-> frame.fatal,
     ok |-> ok, part |-> part, by |-> by]

\* writer.write_all(&len.to_le_bytes())
write_all_len(w, frame, by, ok) == Append(w, Chunk(frame, "len", by, ok))

\* writer.write_all(&payload)
write_all_payload(w, frame, by, ok) == Append(w, Chunk(frame, "payload", by, ok))

\* The frame whose prefix the write loop wrote last.
in_flight(w) ==
    LET mine == {i \in 1 .. Len(w) : w[i].by = "write-loop"}
    IN  w[CHOOSE i \in mine : \A j \in mine : j <= i]

\* Mutant of error_tx_send: the read thread writes the report to its clone
\* of the stream.
error_tx_send_to_stream(q, w, rep) ==
    [errQueue |-> q,
     wire |-> write_all_payload(
                  write_all_len(w, Frame("RuntimeError", rep.source, rep.fatal),
                                "js-bridge-read", TRUE),
                  Frame("RuntimeError", rep.source, rep.fatal),
                  "js-bridge-read", TRUE)]

\* error_tx.send(report): the report goes to the channel, the stream is not
\* touched.
error_tx_send(q, w, rep) == [errQueue |-> Append(q, rep), wire |-> w]

InitBytes ==
    /\ InitRegistry
    /\ InitSession
    /\ stream \in ByteScripts

\* read thread: one turn of its loop on a frame.
ReadThreadFrame ==
    /\ rd_pc = "read"
    /\ ~crashed
    /\ stream # <<>>
    /\ stream' = Tail(stream)
    /\ LET f == Head(stream)
       IN  IF f.type = "Malformed"
           THEN LET r == error_tx_send(errQueue, wire, Report("socket-read", FALSE))
                IN  /\ errQueue' = r.errQueue
                    /\ wire' = r.wire
                    /\ UNCHANGED <<rd_pc, cmdQueue, readLog>>
           ELSE /\ readLog' = Append(readLog, f)
                /\ IF LoopClosed
                   THEN LET r == error_tx_send(errQueue, wire, Report("ui-thread", TRUE))
                        IN  /\ errQueue' = r.errQueue
                            /\ wire' = r.wire
                            /\ rd_pc' = "done"
                            /\ UNCHANGED cmdQueue
                   ELSE /\ cmdQueue' = send(cmdQueue, QEntry(f, "client"))
                        /\ UNCHANGED <<errQueue, wire, rd_pc>>
    /\ UNCHANGED <<regVars, clientOpen, wr_pc, evQueue, dispLog>>

\* write loop: error_rx.try_recv and, for a report, the prefix of its frame.
DrainWriteLen ==
    /\ wr_pc = "drain"
    /\ ~crashed
    /\ IF errQueue # <<>>
       THEN LET rep == Head(errQueue)
            IN  \E ok \in write_outcomes(clientOpen) :
                   /\ wire' = write_all_len(
                                  wire, Frame("RuntimeError", rep.source, rep.fatal),
                                  "write-loop", ok)
                   /\ errQueue' = Tail(errQueue)
                   /\ wr_pc' = IF ok THEN "drain_payload" ELSE "shutdown"
       ELSE /\ wr_pc' = "recv"
            /\ UNCHANGED <<wire, errQueue>>
    /\ UNCHANGED <<regVars, stream, clientOpen, rd_pc, cmdQueue, evQueue,
                   readLog, dispLog>>

\* write loop: the payload of a report's frame.
DrainWritePayload ==
    /\ wr_pc = "drain_payload"
    /\ ~crashed
    /\ LET f == in_flight(wire)
       IN  \E ok \in write_outcomes(clientOpen) :
              /\ wire' = write_all_payload(wire, f, "write-loop", ok)
              /\ wr_pc' = IF ~ok \/ f.fatal THEN "shutdown" ELSE "drain"
    /\ UNCHANGED <<regVars, stream, clientOpen, rd_pc, cmdQueue, errQueue,
                   evQueue, readLog, dispLog>>

\* write loop: event_receiver.recv_timeout and, for an event, the prefix.
RecvWriteLen ==
    /\ wr_pc = "recv"
    /\ ~crashed
    /\ IF evQueue # <<>>
       THEN \E ok \in write_outcomes(clientOpen) :
               /\ wire' = write_all_len(
                              wire, runtime_error_from_ui_event(Head(evQueue)),
                              "write-loop", ok)
               /\ evQueue' = Tail(evQueue)
               /\ wr_pc' = IF ok THEN "recv_payload" ELSE "shutdown"
       ELSE /\ wr_pc' = IF UiGone THEN "shutdown" ELSE "drain"
            /\ UNCHANGED <<wire, evQueue>>
    /\ UNCHANGED <<regVars, stream, clientOpen, rd_pc, cmdQueue, errQueue,
                   readLog, dispLog>>

\* write loop: the payload of an event's frame.
RecvWritePayload ==
    /\ wr_pc = "recv_payload"
    /\ ~crashed
    /\ \E ok \in write_outcomes(clientOpen) :
          /\ wire' = write_all_payload(wire, in_flight(wire), "write-loop", ok)
          /\ wr_pc' = IF ok THEN "drain" ELSE "shutdown"
    /\ UNCHANGED <<regVars, stream, clientOpen, rd_pc, cmdQueue, errQueue,
                   evQueue, readLog, dispLog>>

\* after the loop: the prefix of the Shutdown frame.
ShutdownWriteLen ==
    /\ wr_pc = "shutdown"
    /\ ~crashed
    /\ \E ok \in write_outcomes(clientOpen) :
          /\ wire' = write_all_len(wire, Frame("Shutdown", "-", FALSE),
                                   "write-loop", ok)
          /\ wr_pc' = IF ok THEN "shutdown_payload" ELSE "join"
    /\ UNCHANGED <<regVars, stream, clientOpen, rd_pc, cmdQueue, errQueue,
                   evQueue, readLog, dispLog>>

\* after the loop: the payload of the Shutdown frame.
ShutdownWritePayload ==
    /\ wr_pc = "shutdown_payload"
    /\ ~crashed
    /\ \E ok \in write_outcomes(clientOpen) :
          wire' = write_all_payload(wire, in_flight(wire), "write-loop", ok)
    /\ wr_pc' = "join"
    /\ UNCHANGED <<regVars, stream, clientOpen, rd_pc, cmdQueue, errQueue,
                   evQueue, readLog, dispLog>>

NextBytes ==
    \/ ReadThreadFrame
    \/ ReadEof
    \/ DrainWriteLen
    \/ DrainWritePayload
    \/ RecvWriteLen
    \/ RecvWritePayload
    \/ ShutdownWriteLen
    \/ ShutdownWritePayload
    \/ JoinReader
    \/ SendExitApp
    \/ UiDispatch
    \/ UiUserEvent
    \/ UserClose
    \/ UiLoopExit
    \/ ClientClose

SpecBytes == InitBytes /\ [][NextBytes]_vars

----
\* ---------------- framing of any value (ipc/msgpack.rs) --------------------
\* write_msgpack_frame and read_msgpack_frame on values of every size.  A
\* usize is kept as two digits of base 65536, [hi, lo] standing for
\* hi * 65536 + lo, so that lengths of 2^32 and more can be told from their
\* cast to u32.

Usize(hi, lo) == [hi |-> hi, lo |-> lo]

usize_add(a, b) ==
    Usize(a.hi + b.hi + (a.lo + b.lo) \div 65536, (a.lo + b.lo) % 65536)

usize_sub(a, b) ==
    IF a.lo >= b.lo THEN Usize(a.hi - b.hi, a.lo - b.lo)
    ELSE Usize(a.hi - b.hi - 1, a.lo + 65536 - b.lo)

\* payload.len() as u32: the value modulo 2^32.
as_u32(n) == Usize(n.hi % 65536, n.lo)

u32_to_le_bytes(u) ==
    <<u.lo % 256, u.lo \div 256, u.hi % 256, u.hi \div 256>>

u32_from_le_bytes(b) == Usize(b[3] + 256 * b[4], b[1] + 256 * b[2])

\* A message: its variant, one string field (a sequence of characters) and
\* its optional binary blob, <<>> for None and <<n>> for a blob of n bytes.
Value(type, text, data) == [type |-> type, text |-> text, data |-> data]

\* The blob sizes followed: empty, one byte, and 2^32 bytes.
BlobSizes == {Usize(0, 0), Usize(0, 1), Usize(65536, 0)}

FrameValues ==
    {Value(t, x, <<>>) : t \in {"SetWidgetText", "UiEvent", "RuntimeError"},
                         x \in {<<>>, <<"a">>}}
    \cup {Value("Shutdown", <<>>, <<>>)}
    \cup {Value("SetImageData", <<>>, <<n>>) : n \in BlobSizes}

\* The number of bytes rmp_serde::to_vec_named yields for a value: markers
\* and field names, the bytes of its string and the bytes of its blob.
payload_len(v) ==
    LET fixed == Usize(0, 16 + Len(v.type) + Len(v.text))
    IN  IF v.data = <<>> THEN fixed ELSE usize_add(fixed, v.data[1])

\* rmp_serde::to_vec_named: the payload of a value, kept as one element that
\* stands for len bytes.
to_vec_named_value(v) == [val |-> v, len |-> payload_len(v)]

\* write_msgpack_frame: the bytes it writes for one value.
write_msgpack_frame_bytes(v) ==
    LET payload == to_vec_named_value(v)
    IN  u32_to_le_bytes(as_u32(payload.len)) \o <<payload>>

\* rmp_serde::from_slice on the first len bytes of a payload: the value when
\* these are the whole payload, an error when the payload is cut short.
from_slice_value(payload, len) ==
    IF len = payload.len THEN [ok |-> TRUE, val |-> payload.val]
    ELSE [ok |-> FALSE, val |-> payload.val]

ReadRes(res, val, rest) == [res |-> res, val |-> val, rest |-> rest]

\* read_msgpack_frame on the bytes written: read_exact of the prefix,
\* read_exact of len bytes, from_slice.
read_msgpack_frame_value(bytes) ==
    LET len     == u32_from_le_bytes(SubSeq(bytes, 1, 4))
        payload == bytes[5]
        m       == from_slice_value(payload, len)
        rest    == SubSeq(bytes, 6, Len(bytes))
    IN  IF m.ok THEN ReadRes("ok", m.val, rest)
        ELSE ReadRes("invalid", m.val,
                     <<[val |-> payload.val, len |-> usize_sub(payload.len, len)]>>
                         \o rest)

\* The values still to be written are in cmdQueue, the values written in
\* dispLog, the bytes written and not yet read in stream, the results of the
\* reads in readLog.
InitFrame ==
    /\ InitRegistry
    /\ clientOpen = TRUE
    /\ rd_pc = "read"
    /\ wr_pc = "drain"
    /\ cmdQueue \in UNION {[1 .. n -> FrameValues] : n \in 1 .. MaxValues}
    /\ errQueue = <<>>
    /\ evQueue = <<>>
    /\ wire = <<>>
    /\ readLog = <<>>
    /\ dispLog = <<>>
    /\ stream = <<>>

WriteValue ==
    /\ cmdQueue # <<>>
    /\ stream' = stream \o write_msgpack_frame_bytes(Head(cmdQueue))
    /\ dispLog' = Append(dispLog, Head(cmdQueue))
    /\ cmdQueue' = Tail(cmdQueue)
    /\ UNCHANGED <<regVars, clientOpen, rd_pc, wr_pc, errQueue, evQueue, wire,
                   readLog>>

\* One read_msgpack_frame; after a payload that was cut short the reader is
\* no longer at a frame boundary and is not followed further.
ReadValue ==
    /\ rd_pc = "read"
    /\ stream # <<>>
    /\ LET r == read_msgpack_frame_value(stream)
       IN  /\ readLog' = Append(readLog, [res |-> r.res, val |-> r.val])
           /\ stream' = r.rest
           /\ rd_pc' = IF r.res = "ok" THEN "read" ELSE "lost"
    /\ UNCHANGED <<regVars, clientOpen, wr_pc, cmdQueue, errQueue, evQueue, wire,
                   dispLog>>

NextFrame ==
    \/ WriteValue
    \/ ReadValue

SpecFrame == InitFrame /\ [][NextFrame]_vars

----
\* ---------------- a failure of the event loop ------------------------------

InitFatal ==
    /\ InitRegistry
    /\ InitSession
    /\ stream \in UNION {[1 .. n -> Frames] : n \in 0 .. MaxFatalFrames}

\* run_ui_blocking: run_with returns Err(e); the closure sends
\* UiEvent::RuntimeError { source: "ui-runtime", fatal: true } on the event
\* channel before it panics.
UiRuntimeFailure ==
    /\ ui \in {"running", "exiting"}
    /\ ~crashed
    /\ ui' = "failed"
    /\ evQueue' = Append(evQueue, Frame("RuntimeError", "ui-runtime", TRUE))
    /\ UNCHANGED <<widgets, child_counts, nextWid, nativeKids, crashed,
                   lastCmd, lastDiags, lastOps>>
    /\ UNCHANGED <<stream, clientOpen, rd_pc, wr_pc, cmdQueue, errQueue,
                   wire, readLog, dispLog>>

\* run_ui_blocking: panic!(...) on the main thread ends the process.
UiPanic ==
    /\ ui = "failed"
    /\ ~crashed
    /\ crashed' = TRUE
    /\ UNCHANGED <<widgets, child_counts, nextWid, nativeKids, ui,
                   lastCmd, lastDiags, lastOps>>
    /\ UNCHANGED ipcVars

NextFatal ==
    \/ ReadFrame
    \/ ReadEof
    \/ WriterDrain
    \/ WriterRecv
    \/ WriteShutdown
    \/ JoinReader
    \/ SendExitApp
    \/ UiDispatch
    \/ UiUserEvent
    \/ UserClose
    \/ UiLoopExit
    \/ ClientClose
    \/ UiRuntimeFailure
    \/ UiPanic

SpecFatal == InitFatal /\ [][NextFatal]_vars

----
\* ---------------- a connection that has become unusable -------------------

\* The client has sent some frames and the connection is then reset: reads
\* fail from there on, and writes may fail.
InitReset ==
    /\ InitRegistry
    /\ InitSession
    /\ stream \in {sc \o <<IoError>> :
                     sc \in UNION {[1 .. n -> IpcCmds] : n \in 0 .. MaxResetFrames}}

\* The "socket-read" reports made so far, queued or already written.
SocketReadReports ==
    Cardinality({i \in DOMAIN errQueue : errQueue[i].source = "socket-read"})
    + Cardinality({i \in DOMAIN wire : wire[i].source = "socket-read"})

\* read thread: read_msgpack_frame returns Err(e), e.kind() other than
\* UnexpectedEof; a non-fatal report is queued and the loop goes on.  The
\* number of reports the model follows is capped; the loop has no bound.
ReadIoError ==
    /\ rd_pc = "read"
    /\ ~crashed
    /\ stream # <<>>
    /\ Head(stream) = IoError
    /\ SocketReadReports < MaxReports
    /\ errQueue' = Append(errQueue, Report("socket-read", FALSE))
    /\ UNCHANGED <<regVars, stream, clientOpen, rd_pc, wr_pc, cmdQueue, evQueue,
                   wire, readLog, dispLog>>

NextReset ==
    \/ ReadFrame
    \/ ReadIoError
    \/ WriterDrain
    \/ WriterRecv
    \/ WriteShutdown
    \/ JoinReader
    \/ SendExitApp
    \/ UiDispatch
    \/ UiUserEvent
    \/ UserClose
    \/ UiLoopExit
    \/ ClientClose

SpecReset == InitReset /\ [][NextReset]_vars

FairReset ==
    /\ InitReset /\ [][NextReset]_vars
    /\ WF_vars(ReadFrame \/ ReadIoError)
    /\ WF_vars(WriterStep)
    /\ WF_vars(UiDispatch)
    /\ WF_vars(UiLoopExit)

----
\* ---------------- framing on the byte stream (ipc/msgpack.rs) --------------
\* The read thread over the bytes of the socket: a frame is a 4-byte
\* little-endian length followed by that many payload bytes.

\* rmp_serde::to_vec_named of the client's messages, as short byte codes; the
\* payload <<0>> decodes to no message.
to_vec_named(f) ==
    CASE f.type = "CreateWidget"  -> <<1, 1>>
      [] f.type = "RemoveWidget"  -> <<2>>
      [] f.type = "SetWidgetText" -> <<3>>
      [] f.type = "ExitApp"       -> <<4>>
      [] OTHER                    -> <<0>>

\* rmp_serde::from_slice::<ClientMessage> followed by handle_client_message.
from_slice(payload) ==
    IF \E c \in IpcCmds : to_vec_named(c) = payload
    THEN [ok |-> TRUE, msg |-> CHOOSE c \in IpcCmds : to_vec_named(c) = payload]
    ELSE [ok |-> FALSE, msg |-> NoCmd]

to_le_bytes(n) ==
    <<n % 256, (n \div 256) % 256, (n \div 65536) % 256, (n \div 16777216) % 256>>

from_le_bytes(b) == b[1] + 256 * b[2] + 65536 * b[3] + 16777216 * b[4]

\* The bytes write_msgpack_frame puts on a stream for one value (the cast of
\* the length to u32 changes no length below 2^32).
frame_bytes(f) == to_le_bytes(Len(to_vec_named(f))) \o to_vec_named(f)

RECURSIVE script_bytes(_)
script_bytes(script) ==
    IF script = <<>> THEN <<>>
    ELSE frame_bytes(Head(script)) \o script_bytes(Tail(script))

FrameRes(res, msg, rest) == [res |-> res, msg |-> msg, rest |-> rest]

\* Mutant of read_msgpack_frame: a payload that fails to decode is left on
\* the stream.
read_msgpack_frame_keep_payload(bytes) ==
    IF Len(bytes) < 4 THEN FrameRes("eof", NoCmd, bytes)
    ELSE LET len == from_le_bytes(SubSeq(bytes, 1, 4))
         IN  IF Len(bytes) < 4 + len THEN FrameRes("eof", NoCmd, bytes)
             ELSE LET m == from_slice(SubSeq(bytes, 5, 4 + len))
                  IN  IF m.ok
                      THEN FrameRes("ok", m.msg, SubSeq(bytes, 5 + len, Len(bytes)))
                      ELSE FrameRes("invalid", NoCmd, SubSeq(bytes, 5, Len(bytes)))

\* read_msgpack_frame on the bytes still to come: read_exact of the prefix,
\* read_exact of the payload, from_slice.  A read_exact that cannot be filled
\* is ErrorKind::UnexpectedEof once the peer has closed, whether no byte or
\* some bytes of the frame had arrived.
read_msgpack_frame(bytes) ==
    IF Len(bytes) < 4 THEN FrameRes("eof", NoCmd, bytes)
    ELSE LET len == from_le_bytes(SubSeq(bytes, 1, 4))
         IN  IF Len(bytes) < 4 + len THEN FrameRes("eof", NoCmd, bytes)
             ELSE LET m    == from_slice(SubSeq(bytes, 5, 4 + len))
                      rest == SubSeq(bytes, 5 + len, Len(bytes))
                  IN  IF m.ok THEN FrameRes("ok", m.msg, rest)
                      ELSE FrameRes("invalid", NoCmd, rest)

WireScripts == UNION {[1 .. n -> Frames] : n \in 0 .. MaxWireFrames}

\* What a client can have sent when it closes: whole frames, the last one
\* possibly cut short.
WireStreams ==
    UNION {{SubSeq(script_bytes(sc), 1, n) : n \in 0 .. Len(script_bytes(sc))} :
             sc \in WireScripts}

InitWire ==
    /\ InitRegistry
    /\ InitSession
    /\ stream \in WireStreams

\* read thread: read_msgpack_frame returns a message or a decode error.
ReadWireFrame ==
    /\ rd_pc = "read"
    /\ ~crashed
    /\ LET r == read_msgpack_frame(stream)
       IN  /\ r.res \in {"ok", "invalid"}
           /\ stream' = r.rest
           /\ IF r.res = "invalid"
              THEN /\ errQueue' = Append(errQueue, Report("socket-read", FALSE))
                   /\ UNCHANGED <<rd_pc, cmdQueue, readLog>>
              ELSE /\ readLog' = Append(readLog, r.msg)
                   /\ IF LoopClosed
                      THEN /\ errQueue' = Append(errQueue, Report("ui-thread", TRUE))
                           /\ rd_pc' = "done"
                           /\ UNCHANGED cmdQueue
                      ELSE /\ cmdQueue' = send(cmdQueue, QEntry(r.msg, "client"))
                           /\ UNCHANGED <<errQueue, rd_pc>>
    /\ UNCHANGED <<regVars, clientOpen, wr_pc, evQueue, wire, dispLog>>

\* read thread: read_exact fails with UnexpectedEof and the loop breaks.
ReadWireEof ==
    /\ rd_pc = "read"
    /\ ~crashed
    /\ ~clientOpen
    /\ read_msgpack_frame(stream).res = "eof"
    /\ rd_pc' = "done"
    /\ UNCHANGED <<regVars, stream, clientOpen, wr_pc, cmdQueue, errQueue,
                   evQueue, wire, readLog, dispLog>>

NextWire ==
    \/ ReadWireFrame
    \/ ReadWireEof
    \/ ClientClose
    \/ UiDispatch
    \/ UserClose
    \/ UiLoopExit

SpecWire == InitWire /\ [][NextWire]_vars

----
\* ---------------- properties of the registry ------------------------------

ParentKeys == Ids \cup {RootKey}

RemoveCmd(id) == IdCmd("RemoveWidget", id)

\* C1: for every parent key p (the root included) the child_index values of
\* the live records under p are exactly 0 .. n-1, n the number of those
\* records: no gap and no duplicate.
ChildIndicesContiguous ==
    \A p \in ParentKeys :
        LET kids == children_of(widgets, p)
        IN  /\ {widgets[c].child_index : c \in kids} = 0 .. (Cardinality(kids) - 1)
            /\ \A x, y \in kids :
                  x # y => widgets[x].child_index # widgets[y].child_index

\* C2: each live record's parent is the root (absent, or the reserved root
\* key) or the id of another record that is live in the same state.
ParentIsRootOrOtherLiveRecord ==
    \A id \in DOMAIN widgets :
        \/ widgets[id].parent_id = None
        \/ widgets[id].parent_id = RootKey
        \/ (widgets[id].parent_id \in DOMAIN widgets /\ widgets[id].parent_id # id)

\* The k-th record up the parent chain of x (None once the chain leaves the
\* registry or reaches the root).
RECURSIVE ancestor(_, _, _)
ancestor(W, x, k) ==
    IF x \notin DOMAIN W THEN None
    ELSE IF k = 1 THEN W[x].parent_id
    ELSE ancestor(W, W[x].parent_id, k - 1)

\* The records whose parent chain leads to id.
subtree_below(W, id) ==
    {x \in (DOMAIN W) \ {id} :
        \E k \in 1 .. Cardinality(DOMAIN W) : ancestor(W, x, k) = id}

\* C3: a RemoveWidget(id) that returns, on a live id, leaves neither id nor
\* any record whose parent chain leads to id, and removes no other record.
RemoveTakesExactlySubtree ==
    [][\A id \in Ids :
          (id \in DOMAIN widgets /\ Dispatch(RemoveCmd(id)) /\ ~crashed')
              => DOMAIN widgets' =
                    (DOMAIN widgets) \ ({id} \cup subtree_below(widgets, id))]_vars

\* A RemoveWidget that returned after the native removal, records remaining.
C3Witness ==
    /\ lastCmd.type = "RemoveWidget"
    /\ lastOps # <<>>
    /\ ~crashed
    /\ widgets # EmptyMap
    /\ nextWid = MaxCreates + 1

\* C4: removal is idempotent on the registry: remove_widget_subtree on an
\* absent id changes nothing, so a second RemoveWidget(id), or a second
\* remove_widget_subtree(id), leaves every record and child_index as the first
\* application left them.
RemovalIdempotent ==
    /\ \A id \in Ids \ DOMAIN widgets : remove_widget_subtree(widgets, id) = {widgets}
    /\ \A id \in DOMAIN widgets :
          \A W1 \in remove_widget_subtree(widgets, id) :
              /\ remove_widget_subtree(W1, id) = {W1}
              /\ \A r \in RemoveWidget(W1, child_counts, nativeKids, RemoveCmd(id)) :
                    r.W = W1

\* A RemoveWidget that found its id absent, other records being live.
C4Witness ==
    /\ lastCmd.type = "RemoveWidget"
    /\ lastCmd.id \notin DOMAIN widgets
    /\ lastOps = <<>>
    /\ lastDiags = <<>>
    /\ \E x \in DOMAIN widgets : widgets[x].child_index # 0

\* C5: a RemoveWidget addressed to an id that is not live performs no native
\* mutation and sends exactly one non-fatal "not found" runtime-error event.
RemoveAbsentReportsNotFound ==
    [][\A id \in Ids :
          (id \notin DOMAIN widgets /\ Dispatch(RemoveCmd(id)))
              => /\ lastOps' = <<>>
                 /\ Len(lastDiags') = 1
                 /\ lastDiags'[1].kind = "NotFound"
                 /\ lastDiags'[1].fatal = FALSE]_vars

----
\* ---------------- properties of the dispatcher ----------------------------

\* The commands that address one widget by id and mutate it.
MutateCmds ==
    {IdCmd(t, id) : t \in {"SetWidgetText", "SetWidgetValue", "SetWidgetChecked"},
                    id \in Ids}
    \cup {StyleCmd(id, st) : id \in Ids, st \in Styles}
    \cup {PropCmd(id, pr, v) : id \in Ids, pr \in Properties, v \in PropValues}
    \cup {DataCmd(id, d) : id \in Ids, d \in BOOLEAN}

IsStyleCmd(cmd) == cmd.type \in {"SetWidgetStyle", "SetStyleProperty"}

\* What the claim asks of a command to an id that is not live: one non-fatal
\* runtime-error event, the registry as it was, the dispatcher still serving.
OneNonFatalNoChange ==
    /\ Len(lastDiags') = 1
    /\ lastDiags'[1].fatal = FALSE
    /\ lastOps' = <<>>
    /\ widgets' = widgets
    /\ child_counts' = child_counts
    /\ ~crashed'
    /\ ui' = ui

\* C9 as stated: each of SetWidgetText, SetWidgetValue, SetWidgetChecked,
\* SetWidgetStyle, SetStyleProperty and SetImageData addressed to an id that
\* is not live emits exactly one non-fatal runtime-error event, leaves the
\* registry unchanged and leaves the dispatcher serving the next commands.
AbsentIdReportsOnce ==
    [][\A cmd \in MutateCmds :
          (cmd.id \notin DOMAIN widgets /\ Dispatch(cmd)) => OneNonFatalNoChange]_vars

\* C9 amended: the same, except that SetWidgetStyle and SetStyleProperty
\* addressed to the reserved root key "__root__" are not "not found": they
\* style the implicit root container and emit no event.
AbsentIdReportsOnceExceptRootStyle ==
    [][\A cmd \in MutateCmds :
          (cmd.id \notin DOMAIN widgets /\ Dispatch(cmd))
              => IF IsStyleCmd(cmd) /\ cmd.id = RootKey
                 THEN /\ lastDiags' = <<>>
                      /\ Len(lastOps') = 1
                      /\ lastOps'[1].target = RootWid
                      /\ widgets' = widgets
                 ELSE OneNonFatalNoChange]_vars

\* A mutate command that found its id absent and reported it, a widget of
\* another id being live.
C9Witness ==
    /\ lastCmd.type \in {"SetWidgetText", "SetWidgetValue", "SetWidgetChecked",
                          "SetWidgetStyle", "SetStyleProperty", "SetImageData"}
    /\ lastCmd.id \notin DOMAIN widgets
    /\ lastCmd.id # RootKey
    /\ lastDiags = <<Diag("NotFound")>>
    /\ widgets # EmptyMap

\* The kinds on which the dispatcher has a native mutation for a command.
LegalKinds(type) ==
    CASE type = "SetWidgetText"    -> {"Label", "Prose", "TextInput", "Svg"}
      [] type = "SetWidgetValue"   -> {"ProgressBar", "Slider"}
      [] type = "SetWidgetChecked" -> {"Checkbox"}
      [] type = "SetWidgetStyle"   -> StyledKinds
      [] type = "SetStyleProperty" -> StyledKinds
      [] type = "SetImageData"     -> {"Image"}

\* C10: a command dispatched to a live widget of a kind it is not legal on
\* makes no native mutation and emits exactly one non-fatal diagnostic; none
\* is silently ignored.
IllegalPairReportsOnce ==
    [][\A cmd \in MutateCmds :
          (/\ cmd.id \in DOMAIN widgets
           /\ ~(IsStyleCmd(cmd) /\ cmd.id = RootKey)
           /\ widgets[cmd.id].kind \notin LegalKinds(cmd.type)
           /\ Dispatch(cmd))
              => /\ lastOps' = <<>>
                 /\ Len(lastDiags') = 1
                 /\ lastDiags'[1].fatal = FALSE]_vars

\* The step left exactly the result r.
ResultIs(r) ==
    /\ widgets' = r.W
    /\ child_counts' = r.C
    /\ nativeKids' = r.N
    /\ crashed' = r.crashed
    /\ lastDiags' = r.diags
    /\ lastOps' = r.ops

\* SetWidgetStyle as the client sends it: the style arrives as JSON text.
SetWidgetStyleOfJson(id, style_json) ==
    SetWidgetStyle(widgets, child_counts, nativeKids, id, style_of_json(style_json))

ReencodedValue(v) ==
    CASE v = <<"7">> -> JNum(<<"7">>)
      [] v = TrueText -> JBool(TrueText)
      [] v = <<"{", "}">> -> JObj(<<"{", "}">>)
      [] v = <<Quote, "x", Quote>> -> JStr(<<"x">>)
      [] OTHER -> JStr(v)

MalformedStyleIsReported ==
    [][\A id \in Ids, pr \in Properties, v \in PropValues :
          (/\ lastCmd' = CmdTag(PropCmd(id, pr, v))
           /\ Dispatch(PropCmd(id, pr, v))
           /\ ~from_str_BoxStyle(one_entry_json(pr, parsed_value(v))).ok)
              => /\ \E i \in DOMAIN lastDiags' : lastDiags'[i].fatal = FALSE
                 /\ lastOps' = <<>>]_vars

\* The host signal each window command emits.
SignalOf(type) ==
    CASE type = "SetTitle"     -> "SetTitle"
      [] type = "ResizeWindow" -> "SetSize"
      [] type = "CloseWindow"  -> "Exit"
      [] type = "ExitApp"      -> "Exit"

\* C27: SetTitle, ResizeWindow, CloseWindow and ExitApp, in whatever state
\* they are handled, emit their host signal and nothing else, emit no
\* diagnostic and leave the registry and the native tree unchanged.
WindowCommandsOnlySignal ==
    [][lastCmd'.type \in {"SetTitle", "ResizeWindow", "CloseWindow", "ExitApp"} =>
          /\ lastOps' = <<Op(SignalOf(lastCmd'.type), RootWid, 0)>>
          /\ lastDiags' = <<>>
          /\ widgets' = widgets
          /\ child_counts' = child_counts
          /\ nativeKids' = nativeKids
          /\ ~crashed']_vars

\* A window resize handled with widgets live and an exit already requested.
C27Witness ==
    /\ lastCmd.type = "ResizeWindow"
    /\ lastOps = <<Op("SetSize", RootWid, 0)>>
    /\ widgets # EmptyMap
    /\ ui = "exiting"

\* The commands that mutate one widget in place.
InPlaceTypes == {"SetWidgetText", "SetWidgetValue", "SetWidgetChecked",
                 "SetWidgetStyle", "SetStyleProperty", "SetWidgetVisible",
                 "SetImageData"}

\* C26: SetWidgetText, SetWidgetValue, SetWidgetChecked, SetWidgetStyle,
\* SetStyleProperty, SetWidgetVisible and SetImageData leave the registry as
\* it was, live ids and every field of every record, whether they are
\* applied or rejected.
InPlaceCommandsKeepRegistry ==
    [][lastCmd'.type \in InPlaceTypes => widgets' = widgets]_vars

\* One of these commands was applied to a live widget.
C26Witness ==
    /\ lastCmd.type \in InPlaceTypes
    /\ lastCmd.id \in DOMAIN widgets
    /\ lastOps # <<>>
    /\ lastDiags = <<>>

----
\* ---------------- properties of the transport session ---------------------

ShutdownCount(w) == Cardinality({i \in 1 .. Len(w) : w[i].frame = "Shutdown"})

\* C6: once the client has disconnected with end-of-stream at a frame
\* boundary and no command is pending, the host eventually writes exactly one
\* shutdown frame, joins the read thread and sends its one exit command,
\* whatever the user does or does not do.
CleanEofLeadsToShutdown ==
    (~clientOpen /\ stream = <<>> /\ cmdQueue = <<>> /\ ~crashed)
        ~> (wr_pc = "done" /\ rd_pc = "done" /\ ShutdownCount(wire) = 1)

IsPrefix(s, t) == Len(s) <= Len(t) /\ SubSeq(t, 1, Len(s)) = s

\* The client commands waiting in the event loop's queue, in queue order.
ClientCmdsOf(q) ==
    LET c == SelectSeq(q, LAMBDA e : e.origin = "client")
    IN  [i \in 1 .. Len(c) |-> c[i].cmd]

\* The registry and native tree after handling the commands of log in order.
RECURSIVE Replay(_)
Replay(log) ==
    IF log = <<>>
    THEN [W |-> EmptyMap, C |-> [k \in {RootKey} |-> 0],
          N |-> [h \in {RootWid} |-> <<>>], wid |-> 1]
    ELSE LET st  == Replay(SubSeq(log, 1, Len(log) - 1))
             cmd == log[Len(log)]
             r   == CHOOSE x \in handle_client_command(st.W, st.C, st.N, st.wid, cmd) :
                        TRUE
         IN  [W |-> r.W, C |-> r.C, N |-> r.N,
              wid |-> IF cmd.type = "CreateWidget" THEN st.wid + 1 ELSE st.wid]

\* C8: the commands are dispatched one at a time in the order their frames
\* were read, none reordered, duplicated or lost on the way to a live event
\* loop, and the registry is what handling them in that order leaves.
DispatchInReadOrder ==
    /\ IsPrefix(dispLog \o ClientCmdsOf(cmdQueue), readLog)
    /\ (\A i \in 1 .. Len(errQueue) : ~errQueue[i].fatal)
         /\ (\A i \in 1 .. Len(wire) : ~wire[i].fatal)
           => dispLog \o ClientCmdsOf(cmdQueue) = readLog
    /\ widgets = Replay(dispLog).W
    /\ child_counts = Replay(dispLog).C
    /\ nativeKids = Replay(dispLog).N

\* Three different commands were dispatched, the last seeing the first's widget.
C8Witness ==
    /\ Len(dispLog) = 3
    /\ dispLog[1].type = "CreateWidget"
    /\ dispLog[2].type = "SetWidgetText"
    /\ dispLog[3].type = "RemoveWidget"
    /\ widgets = EmptyMap

----
\* ---------------- properties of CreateWidget ------------------------------

\* The parent kinds add_to_parent has an attach operation for.
ChildAcceptingKinds == {"Flex", "Container", "Button", "SizedBox", "ZStack",
                        "Hoverable"}

\* The parent named by a create is not live, or is of a kind without children.
ParentRejects(W, parent_id) ==
    /\ parent_id # None
    /\ \/ parent_id \notin DOMAIN W
       \/ W[parent_id].kind \notin ChildAcceptingKinds

\* Some record is new, or was replaced by a record of a new native handle.
RecordCreated ==
    \E id \in DOMAIN widgets' :
        \/ id \notin DOMAIN widgets
        \/ widgets'[id].widget_id # widgets[id].widget_id

\* C11: a CreateWidget whose parent id is not live, or whose parent's kind
\* does not accept children, creates no record and leaves every record as it
\* was; a record appears only in a CreateWidget step whose native attach was
\* made.
RejectedCreateLeavesRegistry ==
    [][/\ widgets' # widgets
             => \A cmd \in AttachCmds :
                   ~(/\ ParentRejects(widgets, cmd.parent_id)
                     /\ lastCmd' = CmdTag(cmd)
                     /\ Dispatch(cmd))
       /\ RecordCreated
             => /\ lastCmd'.type = "CreateWidget"
                /\ Len(lastOps') = 1
                /\ lastOps'[1].arg = nextWid
                /\ nextWid \in DOMAIN nativeKids'
                /\ widgets'[lastCmd'.id].widget_id = nextWid]_vars

\* A create under a live Label was attempted and left no record.
C11Witness ==
    /\ lastCmd.type = "CreateWidget"
    /\ lastOps = <<>>
    /\ ~crashed
    /\ \E p \in DOMAIN widgets :
          /\ widgets[p].kind = "Label"
          /\ p \in DOMAIN child_counts
          /\ DOMAIN widgets = {p}

\* C12: every CreateWidget that is rejected (parent not live, parent kind
\* forbids children, or required payload missing) sends exactly one non-fatal
\* runtime-error event.
RejectedCreateReportsOnce ==
    [][\A cmd \in AttachCmds :
          (/\ \/ ParentRejects(widgets, cmd.parent_id)
              \/ (cmd.kind = "Image" /\ ~cmd.dataOk)
           /\ lastCmd' = CmdTag(cmd)
           /\ Dispatch(cmd))
              => /\ Len(lastDiags') = 1
                 /\ lastDiags'[1].fatal = FALSE]_vars

\* C13: a single-slot parent (SizedBox, Hoverable) never has more than one
\* live child record.
SingleSlotHasAtMostOneChild ==
    \A p \in DOMAIN widgets :
        widgets[p].kind \in {"SizedBox", "Hoverable"}
            => Cardinality({c \in DOMAIN widgets : widgets[c].parent_id = p}) <= 1

----
\* ---------------- properties of RemoveWidget ------------------------------

\* The number of live records under a parent key, the root key standing for
\* an absent parent.
LiveCount(W, pk) ==
    Cardinality({x \in DOMAIN W : parent_key_of(W[x].parent_id) = pk})

StaleDiags(diags) == {i \in 1 .. Len(diags) : diags[i].kind = "StaleIndex"}

\* A step that handled RemoveWidget for an id that was live.
RemoveOfLive == lastCmd'.type = "RemoveWidget" /\ lastCmd'.id \in DOMAIN widgets

\* C14: every positional native removal RemoveWidget issues uses an index
\* below the live child count of the parent in the registry; a recorded
\* child_index at or above that count is replaced by count - 1 and reported
\* with one non-fatal diagnostic, and one below it is used as recorded.
NativeRemovalIndexInRange ==
    [][(/\ RemoveOfLive
        /\ lastOps' # <<>>
        /\ lastOps'[1].op \in {"Flex::remove_child", "ZStack::remove_child"})
           => LET id == lastCmd'.id
                  n  == LiveCount(widgets, parent_key_of(widgets[id].parent_id))
                  ci == widgets[id].child_index
              IN  /\ lastOps'[1].arg < n
                  /\ ci < n => /\ lastOps'[1].arg = ci
                               /\ StaleDiags(lastDiags') = {}
                  /\ ci >= n => /\ lastOps'[1].arg = n - 1
                                /\ Cardinality(StaleDiags(lastDiags')) = 1
                                /\ \A i \in 1 .. Len(lastDiags') :
                                      ~lastDiags'[i].fatal]_vars

\* C15: a RemoveWidget on a live id removes the record and its descendants
\* from the registry, also when it returns without having issued a native
\* removal (the parent's kind has no child-removal operation, or the parent
\* record is missing).
RemoveAlwaysSyncsRegistry ==
    [][(RemoveOfLive /\ ~crashed')
           => /\ lastCmd'.id \notin DOMAIN widgets'
              /\ subtree_below(widgets, lastCmd'.id) \cap DOMAIN widgets' = {}]_vars

NextChildIndexIsLiveCount ==
    [][RecordCreated
          => widgets'[lastCmd'.id].child_index
               = LiveCount(widgets, parent_key_of(widgets'[lastCmd'.id].parent_id))]_vars

\* on_action has just handled the ExitApp the session sent at its end.
DispatchesSessionExit ==
    /\ cmdQueue # <<>>
    /\ Head(cmdQueue).origin = "server"
    /\ cmdQueue' = Tail(cmdQueue)

\* C24: when the exit signal the session sends at its end is dispatched,
\* every command the read thread handed to the event loop has already been
\* dispatched and none is left waiting behind it.
ExitNeverOvertakes ==
    [][DispatchesSessionExit =>
          /\ dispLog = readLog
          /\ ClientCmdsOf(cmdQueue') = <<>>]_vars

\* The session's exit signal was dispatched after a client command that was
\* delivered before it; the client itself sent no ExitApp.
C24Witness ==
    /\ wr_pc = "done"
    /\ cmdQueue = <<>>
    /\ lastCmd.type = "ExitApp"
    /\ dispLog # <<>>
    /\ dispLog = readLog
    /\ \A i \in DOMAIN dispLog : dispLog[i].type # "ExitApp"

\* The write loop has just forwarded, with a successful write, a runtime-error
\* event of the dispatcher.
ForwardsDispatcherReport ==
    /\ wr_pc = "recv"
    /\ Len(wire') = Len(wire) + 1
    /\ wire'[Len(wire')].frame = "RuntimeError"
    /\ wire'[Len(wire')].source = "ui-handler"
    /\ wire'[Len(wire')].ok

\* C23: every runtime-error event the dispatcher emits has fatal = false, and
\* forwarding one to the client leaves the write loop running (it goes back
\* to draining the reports) and the connection as it was.
DispatcherReportsAreNonFatal ==
    [][/\ \A i \in DOMAIN lastDiags' : lastDiags'[i].fatal = FALSE
       /\ ForwardsDispatcherReport =>
             /\ wire'[Len(wire')].fatal = FALSE
             /\ wr_pc' = "drain"
             /\ clientOpen' = clientOpen
             /\ rd_pc' = rd_pc]_vars

\* A dispatcher report was forwarded and the write loop went on to write the
\* next event.
C23Witness ==
    /\ Len(wire) >= 2
    /\ wire[1].frame = "RuntimeError"
    /\ wire[1].source = "ui-handler"
    /\ wire[1].ok
    /\ wire[2].frame \in {"RuntimeError", "UiEvent"}
    /\ wire[2].ok

\* C22: once a runtime-error frame with fatal = true has been written to the
\* client, the write loop has been left, no UI-event frame is written after
\* it, and the frame written next is the shutdown frame.
FatalReportStartsShutdown ==
    \A i \in DOMAIN wire :
        (wire[i].frame = "RuntimeError" /\ wire[i].fatal) =>
            /\ wr_pc \notin {"drain", "recv"}
            /\ \A j \in (i + 1) .. Len(wire) : wire[j].frame # "UiEvent"
            /\ i < Len(wire) => wire[i + 1].frame = "Shutdown"

\* C25: the bytes written for a value are a 4-byte little-endian length
\* followed by exactly that many payload bytes, and reading a frame from the
\* bytes written returns the value that was written.
RoundTripFraming ==
    [][/\ Len(dispLog') = Len(dispLog) + 1 =>
             LET n == Len(stream')
             IN  u32_from_le_bytes(SubSeq(stream', n - 4, n - 1)) = stream'[n].len
       /\ Len(readLog') = Len(readLog) + 1 =>
             readLog'[Len(readLog')] =
                 [res |-> "ok", val |-> dispLog[Len(readLog')]]]_vars

\* The same for the values whose payload is shorter than 2^32 bytes.
RoundTripFramingBelowU32 ==
    [][/\ (Len(dispLog') = Len(dispLog) + 1
           /\ payload_len(dispLog'[Len(dispLog')]).hi < 65536) =>
             LET n == Len(stream')
             IN  u32_from_le_bytes(SubSeq(stream', n - 4, n - 1)) = stream'[n].len
       /\ (Len(readLog') = Len(readLog) + 1
           /\ payload_len(dispLog[Len(readLog')]).hi < 65536) =>
             readLog'[Len(readLog')] =
                 [res |-> "ok", val |-> dispLog[Len(readLog')]]]_vars

\* C21: when reads on the stream keep failing with an error other than a
\* clean end of stream, the session terminates: the read loop and the write
\* loop both stop and the exit command has been sent to the native side.
ResetEndsSession == <>(rd_pc = "done" /\ wr_pc = "done")

----
\* ---------------- the registry against the native tree ---------------------

\* The parents whose native widget holds a sequence of children.
SequenceParents ==
    {RootKey} \cup {id \in DOMAIN widgets :
                      widgets[id].kind \in {"Flex", "Container", "Button", "ZStack"}}

\* The native widget that children created with this parent key are added to.
NativeOf(parent_key) ==
    IF parent_key \in DOMAIN widgets THEN widgets[parent_key].widget_id ELSE RootWid

\* C29: for the root and for every live Flex, Container, Button and ZStack,
\* the native children are exactly the native widgets of its live child
\* records, each at the position its child_index gives.
RegistryMirrorsNativeTree ==
    ~crashed =>
        \A p \in SequenceParents :
            LET kids == children_of(widgets, p)
                h    == NativeOf(p)
            IN  /\ h \in DOMAIN nativeKids
                /\ Len(nativeKids[h]) = Cardinality(kids)
                /\ \A c \in kids :
                      /\ widgets[c].child_index < Len(nativeKids[h])
                      /\ nativeKids[h][widgets[c].child_index + 1] = widgets[c].widget_id

\* C30: no sequence of commands crashes the native-tree owner: no positional
\* removal is issued with an index at or beyond the number of children of
\* the parent's native widget, and no command edits a widget that is gone.
NoCommandCrashesOwner == ~crashed

\* C31: every key of child_counts is the root key or a live id, and the count
\* stored for it is the number of live records whose parent it is.
ChildCountsMatchRegistry ==
    \A k \in DOMAIN child_counts :
        /\ k = RootKey \/ k \in DOMAIN widgets
        /\ child_counts[k] = current_child_count(widgets, k)

\* C32: the reserved root key is never the id of a record, so no record has a
\* client-created widget of that name as its parent: the children of the
\* implicit root are the records without a parent.
RootKeyNeverRegistered ==
    /\ RootKey \notin DOMAIN widgets
    /\ children_of(widgets, RootKey) = {id \in DOMAIN widgets : widgets[id].parent_id = None}

\* C34: when no CreateWidget names an id that is live, every live record has
\* a child_index below the number of live records under its parent key, and
\* the last command emitted no stale-index diagnostic.
FreshIdsKeepIndexInRange ==
    /\ \A id \in DOMAIN widgets :
          widgets[id].child_index
              < LiveCount(widgets, parent_key_of(widgets[id].parent_id))
    /\ StaleDiags(lastDiags) = {}

\* C35: when RemoveWidget handles a live id, the number of live records
\* counted under that record's parent key is at least 1, the record itself
\* being one of them, and the "no siblings" diagnostic is not emitted.
RemovedRecordCountsItself ==
    [][RemoveOfLive =>
          LET info == widgets[lastCmd'.id]
              parent_key == parent_key_of(info.parent_id)
          IN  /\ lastCmd'.id \in children_of(widgets, parent_key)
              /\ current_child_count(widgets, parent_key) >= 1
              /\ \A i \in 1 .. Len(lastDiags') : lastDiags'[i].kind # "NoSiblings"]_vars

\* The only widget of the window was removed, natively and from the registry.
C35Witness ==
    /\ lastCmd.type = "RemoveWidget"
    /\ DOMAIN widgets = {}
    /\ lastDiags = <<>>
    /\ lastOps # <<>>
    /\ lastOps[1].op = "Flex::remove_child"
    /\ lastOps[1].arg = 0

\* C36: every write to the client's stream is made by the write loop, and
\* the stream is a sequence of whole frames: each payload directly follows
\* the length prefix of the same frame, and a prefix that was written is
\* followed by nothing but its own payload.
FramesAreNotInterleaved ==
    \A i \in 1 .. Len(wire) :
        /\ wire[i].by = "write-loop"
        /\ wire[i].part = "payload" =>
              /\ i > 1
              /\ wire[i - 1] = [wire[i] EXCEPT !.part = "len", !.ok = TRUE]
        /\ (wire[i].part = "len" /\ wire[i].ok /\ i < Len(wire)) =>
              wire[i + 1].part = "payload"

\* The write loop is between the prefix and the payload of a frame while a
\* report of the read thread waits in the channel.
C36Witness ==
    /\ wr_pc \in {"drain_payload", "recv_payload"}
    /\ errQueue # <<>>
    /\ wire # <<>>
    /\ wire[Len(wire)].part = "len"

\* The messages on the stream that came from the event channel (the reports
\* of the read thread carry the sources "socket-read" and "ui-thread").
IsEventMessage(m) == m.frame = "UiEvent" \/ m.source = "ui-handler"

\* The events sent so far, in the order of sending: those already written, as
\* they appear on the stream, followed by those still in the channel.
EventLine ==
    LET written == SelectSeq(wire, IsEventMessage)
    IN  [i \in 1 .. Len(written) |->
            Frame(written[i].frame, written[i].source, written[i].fatal)]
        \o evQueue

\* C37: the events written to the client are, in order and one for one, the
\* first of the events sent: writing an event moves it from the channel to
\* the stream with its content unchanged, as a runtime-error message when it
\* is a RuntimeError event and as a UI-event message otherwise, and sending
\* an event adds it behind all earlier ones.
EventsWrittenInOrder == [][IsPrefix(EventLine, EventLine')]_vars

\* A widget action and a dispatcher report were both written, in some order.
C37Witness ==
    LET written == SelectSeq(wire, IsEventMessage)
    IN  /\ Len(written) >= 2
        /\ written[1].frame # written[2].frame
        /\ written[1].ok
        /\ written[2].ok

\* C38: an action of a native widget whose handle is held by a live record
\* sends one event carrying that record's logical id, and an action of a
\* native widget whose handle no live record holds sends no event; the event
\* carries an identifier of the client, not the handle.
InteractionEventsNameLiveRecords ==
    [][lastCmd'.type = "WidgetAction" =>
          LET holders == {id \in DOMAIN widgets :
                             widgets[id].widget_id = lastCmd'.widget_id}
          IN  IF holders = {}
              THEN evQueue' = evQueue
              ELSE /\ Len(evQueue') = Len(evQueue) + 1
                   /\ SubSeq(evQueue', 1, Len(evQueue)) = evQueue
                   /\ evQueue'[Len(evQueue')].frame = "UiEvent"
                   /\ evQueue'[Len(evQueue')].source \in holders
                   /\ evQueue'[Len(evQueue')].source \in Ids]_vars

\* One action sent its event, and the latest one, on a native widget whose record
\* was replaced, sent none.
C38Witness ==
    /\ lastCmd.type = "WidgetAction"
    /\ \A id \in DOMAIN widgets : widgets[id].widget_id # lastCmd.widget_id
    /\ Len(evQueue) = 1
    /\ evQueue[1].source \in DOMAIN widgets

\* The fatal reports of a failed hand-over of a command to the event loop.
IsDeliveryReport(r) == r.source = "ui-thread" /\ r.fatal

\* C39: at most one fatal report of a failed hand-over exists in a session,
\* queued or written; once it exists the read thread has stopped, and once
\* it is written the write loop has left its loop and writes nothing after
\* it but the Shutdown frame.
OneFatalDeliveryReport ==
    LET queued  == {i \in 1 .. Len(errQueue) : IsDeliveryReport(errQueue[i])}
        written == {i \in 1 .. Len(wire) : IsDeliveryReport(wire[i])}
    IN  /\ Cardinality(queued) + Cardinality(written) <= 1
        /\ (queued # {} \/ written # {}) => rd_pc = "done"
        /\ \A i \in written :
              /\ wr_pc \in {"shutdown", "join", "exitapp", "done"}
              /\ \A j \in (i + 1) .. Len(wire) : wire[j].frame = "Shutdown"
              /\ Len(wire) <= i + 1

\* The fatal report was written and then the Shutdown frame, with a frame of
\* the client left unread.
C39Witness ==
    /\ Len(wire) >= 2
    /\ IsDeliveryReport(wire[Len(wire) - 1])
    /\ wire[Len(wire) - 1].ok
    /\ wire[Len(wire)].frame = "Shutdown"
    /\ stream # <<>>
    /\ rd_pc = "done"

\* C40: whenever the read thread is in its loop and a frame has arrived, its
\* next turn can be taken, whatever number of commands the event loop has
\* not dispatched yet: handing a command over never waits for the dispatcher.
ReadNeverWaitsForDispatcher ==
    (rd_pc = "read" /\ ~crashed /\ stream # <<>> /\ Head(stream) # IoError)
        => ENABLED ReadFrame

\* Two commands of the client wait in the event loop's queue, none was
\* dispatched, and the read thread has a further frame to read.
C40Witness ==
    /\ Len(cmdQueue) >= 2
    /\ \A i \in 1 .. Len(cmdQueue) : cmdQueue[i].origin = "client"
    /\ dispLog = <<>>
    /\ rd_pc = "read"
    /\ stream # <<>>

\* C33: the registry a command leaves is determined by the registry it finds
\* and the command: whatever order the hash map is iterated in, RemoveWidget
\* leaves the same records with the same child indices.
RegistryIsFunctionOfCommands ==
    \A id \in Ids :
        \A r1, r2 \in RemoveWidget(widgets, child_counts, nativeKids, RemoveCmd(id)) :
            r1.W = r2.W

----
\* ---------------- properties of the framing -------------------------------

\* The messages a byte stream holds, frame by frame: the frames whose payload
\* decodes, in order; a frame cut short ends the stream.
RECURSIVE MessagesIn(_)
MessagesIn(bytes) ==
    IF Len(bytes) < 4 THEN <<>>
    ELSE LET n == bytes[1] + 256 * bytes[2] + 65536 * bytes[3] + 16777216 * bytes[4]
         IN  IF Len(bytes) < 4 + n THEN <<>>
             ELSE LET body == SubSeq(bytes, 5, 4 + n)
                      tail == SubSeq(bytes, 5 + n, Len(bytes))
                      here == {c \in IpcCmds : to_vec_named(c) = body}
                  IN  IF here = {} THEN MessagesIn(tail)
                      ELSE <<CHOOSE c \in here : TRUE>> \o MessagesIn(tail)

\* The stream starts with a whole frame whose payload does not decode.
UndecodableFrameAhead ==
    /\ Len(stream) >= 4
    /\ Len(stream) >= 4 + from_le_bytes(SubSeq(stream, 1, 4))
    /\ \A c \in IpcCmds :
          to_vec_named(c) # SubSeq(stream, 5, 4 + from_le_bytes(SubSeq(stream, 1, 4)))

\* C19: a frame whose payload fails to decode yields one non-fatal report
\* and leaves the reader running at the next frame boundary; and at every
\* step the messages read so far followed by those still on the stream are
\* the same, each message read being handed to the UI as it was sent.
UndecodableFrameIsSkipped ==
    [][/\ (rd_pc = "read" /\ UndecodableFrameAhead /\ stream' # stream)
             => /\ errQueue' = Append(errQueue, Report("socket-read", FALSE))
                /\ rd_pc' = "read"
                /\ clientOpen' = clientOpen
                /\ readLog' = readLog
                /\ stream' = SubSeq(stream, 5 + from_le_bytes(SubSeq(stream, 1, 4)),
                                    Len(stream))
       /\ readLog' \o MessagesIn(stream') = readLog \o MessagesIn(stream)
       /\ (readLog' # readLog /\ ~UiGone)
             => cmdQueue' = Append(cmdQueue,
                                   QEntry(readLog'[Len(readLog')], "client"))]_vars

\* An undecodable frame has been reported and skipped, and the reader, still
\* running, stands before a well-formed frame sent after it.
C19Witness ==
    /\ errQueue = <<Report("socket-read", FALSE)>>
    /\ readLog = <<>>
    /\ rd_pc = "read"
    /\ read_msgpack_frame(stream).res = "ok"
    /\ Len(MessagesIn(stream)) = 1

\* C20: an end of stream at a frame boundary ends the reader with no report;
\* an end of stream inside the length prefix or inside the payload is
\* reported as a decode error.
MidFrameEofIsReported ==
    [][(rd_pc = "read" /\ rd_pc' = "done" /\ ~clientOpen /\ ~UiGone)
          => IF stream = <<>>
             THEN errQueue' = errQueue
             ELSE errQueue' = Append(errQueue, Report("socket-read", FALSE))]_vars

====
